---- MODULE Spec2Model ----
(***************************************************************************)
(* LogicMonitor Ansible modules: desired-state reconciliation of           *)
(* collectors, collector groups, device groups and scheduled downtime.     *)
(*                                                                         *)
(* Seven modules are modelled.  The three under monitoring/logicmonitor/   *)
(* use logicmonitor_sdk and are called sdk_device_group, sdk_collector     *)
(* and sdk_collector_sdt; the four directly under monitoring/ are called   *)
(* device_group, collector, collector_group and device_sdt.                *)
(*                                                                         *)
(* Python values are tagged records [t, v]; a Python string is a sequence  *)
(* of one-character strings, so that lstrip, split and join are computed.  *)
(***************************************************************************)
EXTENDS Integers, Sequences, FiniteSets, TLC

VARIABLES
    kind,       \* the module that is run
    params,     \* module.params, the same for every run of the session
    results,    \* the runs that ended: outcome, changed, payload id, calls
    run,        \* the running invocation: position, obj, found_obj, ...
    calls,      \* API calls and local commands the running invocation made
    remote,     \* the LogicMonitor account: its resource collections
    host,       \* the local host: agent installation, installer artifact, clock
    cmp_in,     \* compare_objects: the two field maps and the calling module;
                \* find_obj: the fetched collection
    cmp_out     \* compare_objects: [done, equal]; find_obj: [done, found]

cmp_vars == <<cmp_in, cmp_out>>
run_vars == <<kind, params, results, run, calls, remote, host>>
vars == <<kind, params, results, run, calls, remote, host, cmp_in, cmp_out>>

(***************************************************************************)
(* Python values: a type tag and the string form, so that values of        *)
(* different types can be told apart and compared                          *)
(***************************************************************************)
Digit(d) == <<"0", "1", "2", "3", "4", "5", "6", "7", "8", "9">>[d + 1]

RECURSIVE Decimal(_)
Decimal(n) == IF n < 10 THEN <<Digit(n)>>
              ELSE Decimal(n \div 10) \o <<Digit(n % 10)>>

None == [t |-> "none", v |-> <<>>]
I(n) == [t |-> "int", v |-> Decimal(n)]
S(s) == [t |-> "str", v |-> s]
B(b) == [t |-> "bool", v |-> IF b THEN <<"T", "r", "u", "e">>
                                  ELSE <<"F", "a", "l", "s", "e">>]
EmptyList == [t |-> "list", v |-> <<"[", "]">>]

\* bool(x) / "if x": None, 0, '' and False are falsy
Truthy(x) ==
    CASE x.t = "none" -> FALSE
      [] x.t = "int"  -> x.v # <<"0">>
      [] x.t = "str"  -> x.v # <<>>
      [] x.t = "bool" -> x = B(TRUE)
      [] x.t = "list" -> x # EmptyList

\* str(x)
Str(x) == IF x.t = "none" THEN <<"N", "o", "n", "e">> ELSE x.v

\* the integer a decimal string denotes, -1 when it is no decimal string
RECURSIVE ParseInt(_, _)
ParseInt(str, acc) ==
    IF str = <<>> THEN acc
    ELSE LET d == {n \in 0..9 : Digit(n) = Head(str)}
         IN IF d = {} THEN 0 - 1
            ELSE ParseInt(Tail(str), 10 * acc + (CHOOSE n \in d : TRUE))

\* int(x) of an int or of a string of digits
IntOf(x) == ParseInt(x.v, 0)

(***************************************************************************)
(* Python strings                                                          *)
(***************************************************************************)
\* s.lstrip(c)
RECURSIVE Lstrip(_, _)
Lstrip(s, c) == IF s # <<>> /\ Head(s) = c THEN Lstrip(Tail(s), c) ELSE s

\* index of the first c in s, 0 when there is none
RECURSIVE IndexFrom(_, _, _)
IndexFrom(s, c, i) ==
    IF i > Len(s) THEN 0 ELSE IF s[i] = c THEN i ELSE IndexFrom(s, c, i + 1)

\* s.split(c), which s.rsplit(c) equals when no maxsplit is given
RECURSIVE Split(_, _)
Split(s, c) ==
    LET i == IndexFrom(s, c, 1)
    IN IF i = 0 THEN <<s>>
       ELSE <<SubSeq(s, 1, i - 1)>> \o Split(SubSeq(s, i + 1, Len(s)), c)

\* index of the last c in s, 0 when there is none
RECURSIVE LastIndex(_, _, _)
LastIndex(s, c, i) ==
    IF i = 0 THEN 0 ELSE IF s[i] = c THEN i ELSE LastIndex(s, c, i - 1)

\* s.rsplit(c, 1)
Rsplit1(s, c) ==
    LET i == LastIndex(s, c, Len(s))
    IN IF i = 0 THEN <<s>>
       ELSE <<SubSeq(s, 1, i - 1), SubSeq(s, i + 1, Len(s))>>

\* c.join(parts)
RECURSIVE Join(_, _)
Join(parts, c) ==
    IF parts = <<>> THEN <<>>
    ELSE IF Len(parts) = 1 THEN parts[1]
    ELSE parts[1] \o <<c>> \o Join(Tail(parts), c)

PATH_DELIM == "/"

\* name[len(name) - 1] of path.split(delim)
parse_name_from_path(path, delim) ==
    LET name == Split(path, delim) IN name[Len(name)]

\* a parent path that is always empty: create_device_group without its
\* recursion, every group a child of the root
no_parent_path(full_path) == <<>>

\* '/'.join(full_path.rsplit('/')[0:-1])
parent_path_of(full_path) ==
    LET parts == Split(full_path, "/")
    IN Join(SubSeq(parts, 1, Len(parts) - 1), "/")

(***************************************************************************)
(* The modules                                                             *)
(***************************************************************************)
SdkKinds == {"sdk_device_group", "sdk_collector", "sdk_collector_sdt"}
OldKinds == {"device_group", "collector", "collector_group", "device_sdt"}
Kinds == SdkKinds \cup OldKinds

(***************************************************************************)
(* The LogicMonitor account behind the REST client.  A call answers with   *)
(* [exc, status, data, remote]: exc when the client raises ApiException,   *)
(* else the response status and data, and the account after the call.      *)
(* Any call can also fail with an exception or an error status and then    *)
(* leaves the account as it was.                                           *)
(***************************************************************************)
Min(set) == CHOOSE x \in set : \A y \in set : x <= y

\* a scan that goes on after a match and returns the last item that passes
last_item(items, passing) ==
    IF passing = {} THEN None
    ELSE items[CHOOSE i \in passing : \A j \in passing : j <= i]

\* the first item of a list that passes a test, None when none does:
\* "for item in items: if <test>: return item" and then "return None"
first_item(items, passing) ==
    IF passing = {} THEN None ELSE items[Min(passing)]

RECURSIVE SelectSeq2(_, _)
SelectSeq2(seq, keep) ==
    IF seq = <<>> THEN <<>>
    ELSE IF Head(seq).id \in keep THEN <<Head(seq)>> \o SelectSeq2(Tail(seq), keep)
    ELSE SelectSeq2(Tail(seq), keep)

IdsOf(seq) == {seq[i].id : i \in 1..Len(seq)}
ById(seq, id) == seq[CHOOSE i \in 1..Len(seq) : seq[i].id = id]

Answer(status, data, rem) ==
    [exc |-> FALSE, fault |-> FALSE, status |-> status, data |-> data, remote |-> rem]

ErrorStatuses == {1401}

\* what a call can answer: its regular answer, an ApiException, an error status
Answers(regular) ==
    {regular}
    \cup {[exc |-> TRUE, fault |-> TRUE, status |-> 0, data |-> None,
           remote |-> regular.remote]}
    \cup {[exc |-> FALSE, fault |-> TRUE, status |-> st, data |-> None,
           remote |-> regular.remote] : st \in ErrorStatuses}

\* a create call answered "the record already exists" although the finder
\* had not found the record: another client of the account created it
AlreadyExists(regular) ==
    [exc |-> FALSE, fault |-> TRUE, status |-> 600, data |-> None,
     remote |-> regular.remote]

IsPrefix(p, s) == Len(p) <= Len(s) /\ SubSeq(s, 1, Len(p)) = p

\* client.get_device_group_list(size=-1)
get_device_group_list(rem) == Answer(200, rem.device_groups, rem)

\* client.add_device_group(device_group): the new group gets the next id and
\* the full path of its parent extended by its name; status 600 when that
\* path exists already
add_device_group(rem, dg) ==
    LET groups == rem.device_groups
        parent_ok == dg.parent_id = I(1) \/ dg.parent_id \in IdsOf(groups)
        ppath == IF dg.parent_id = I(1) THEN <<>>
                 ELSE ById(groups, dg.parent_id).full_path.v
        full == IF ppath = <<>> THEN dg.name.v ELSE ppath \o <<"/">> \o dg.name.v
        created == [dg EXCEPT !.id = I(rem.next_id), !.full_path = S(full)]
    IN IF ~parent_ok \/ ~Truthy(dg.name) THEN Answer(1400, None, rem)
       ELSE IF \E i \in 1..Len(groups) : groups[i].full_path.v = full
       THEN Answer(600, None, rem)
       ELSE Answer(200, created,
                   [rem EXCEPT !.device_groups = Append(groups, created),
                               !.next_id = rem.next_id + 1])

\* the fields of a stored object replaced by the non-null fields sent
Merge(stored, sent) ==
    [k \in DOMAIN stored |->
        IF k \in DOMAIN sent /\ sent[k] # None THEN sent[k] ELSE stored[k]]

RECURSIVE Replace(_, _)
Replace(seq, item) ==
    IF seq = <<>> THEN <<>>
    ELSE <<IF Head(seq).id = item.id THEN item ELSE Head(seq)>>
         \o Replace(Tail(seq), item)

\* the id a call addresses by str(obj.id)
Addressed(idstr) ==
    IF idstr = <<>> THEN None
    ELSE LET n == ParseInt(idstr, 0) IN IF n < 0 THEN None ELSE I(n)

\* client.update_device_group_by_id(str(id), device_group); the full path is
\* kept, the caller sends the found name and parent_id
update_device_group_by_id(rem, idstr, dg) ==
    LET groups == rem.device_groups
        id == Addressed(idstr)
    IN IF id \notin IdsOf(groups) THEN Answer(1404, None, rem)
       ELSE LET stored == Merge(ById(groups, id), [dg EXCEPT !.id = id,
                                                   !.full_path = None])
            IN Answer(200, stored,
                      [rem EXCEPT !.device_groups = Replace(groups, stored)])

\* client.delete_device_group_by_id(str(id)): the group goes, and the groups
\* below it
delete_device_group_by_id(rem, idstr) ==
    LET groups == rem.device_groups
        id == Addressed(idstr)
    IN IF id \notin IdsOf(groups) THEN Answer(1404, None, rem)
       ELSE LET path == ById(groups, id).full_path.v
                keep == {g \in IdsOf(groups) :
                            /\ g # id
                            /\ ~IsPrefix(path \o <<"/">>, ById(groups, g).full_path.v)}
            IN Answer(200, None, [rem EXCEPT !.device_groups = SelectSeq2(groups, keep)])

\* client.get_collector_group_list()
get_collector_group_list(rem) == Answer(200, rem.collector_groups, rem)

\* client.add_collector_group(collector_group): status 600 when a group of
\* that name exists already
add_collector_group(rem, cg) ==
    LET groups == rem.collector_groups
        created == [cg EXCEPT !.id = I(rem.next_id)]
    IN IF ~Truthy(cg.name) THEN Answer(1400, None, rem)
       ELSE IF \E i \in 1..Len(groups) : groups[i].name = cg.name
       THEN Answer(600, None, rem)
       ELSE Answer(200, created,
                   [rem EXCEPT !.collector_groups = Append(groups, created),
                               !.next_id = rem.next_id + 1])

\* client.update_collector_group_by_id(str(id), collector_group)
update_collector_group_by_id(rem, idstr, cg) ==
    LET groups == rem.collector_groups
        id == Addressed(idstr)
    IN IF id \notin IdsOf(groups) THEN Answer(1404, None, rem)
       ELSE LET stored == Merge(ById(groups, id), [cg EXCEPT !.id = id])
            IN Answer(200, stored,
                      [rem EXCEPT !.collector_groups = Replace(groups, stored)])

\* client.delete_collector_group_by_id(str(id))
delete_collector_group_by_id(rem, idstr) ==
    LET groups == rem.collector_groups
        id == Addressed(idstr)
    IN IF id \notin IdsOf(groups) THEN Answer(1404, None, rem)
       ELSE Answer(200, None,
                   [rem EXCEPT !.collector_groups =
                                    SelectSeq2(groups, IdsOf(groups) \ {id})])

\* client.get_collector_list(size=-1)
get_collector_list(rem) == Answer(200, rem.collectors, rem)

\* client.get_collector_by_id(str(id)): status 1069 when there is no such
\* collector
get_collector_by_id(rem, idstr) ==
    LET id == Addressed(idstr)
    IN IF id \notin IdsOf(rem.collectors) THEN Answer(1069, None, rem)
       ELSE Answer(200, ById(rem.collectors, id), rem)

\* client.add_collector(collector): the new collector gets the next id
add_collector(rem, c) ==
    LET created == [c EXCEPT !.id = I(rem.next_id)]
    IN Answer(200, created,
              [rem EXCEPT !.collectors = Append(rem.collectors, created),
                          !.next_id = rem.next_id + 1])

\* client.update_collector_by_id(str(id), collector)
update_collector_by_id(rem, idstr, c) ==
    LET id == Addressed(idstr)
    IN IF id \notin IdsOf(rem.collectors) THEN Answer(1069, None, rem)
       ELSE LET stored == Merge(ById(rem.collectors, id), [c EXCEPT !.id = id])
            IN Answer(200, stored,
                      [rem EXCEPT !.collectors = Replace(rem.collectors, stored)])

\* client.delete_collector_by_id(str(id))
delete_collector_by_id(rem, idstr) ==
    LET id == Addressed(idstr)
    IN IF id \notin IdsOf(rem.collectors) THEN Answer(1069, None, rem)
       ELSE Answer(200, None,
                   [rem EXCEPT !.collectors =
                        SelectSeq2(rem.collectors, IdsOf(rem.collectors) \ {id})])

\* client.install_collector(str(id), os_and_arch, collector_size=size): the
\* path of the downloaded installer of that size
install_collector_api(rem, idstr, size) ==
    LET id == Addressed(idstr)
    IN IF id \notin IdsOf(rem.collectors) THEN Answer(1069, None, rem)
       ELSE Answer(200, size, rem)

\* client.get_sdt_list(size=-1)
get_sdt_list(rem) == Answer(200, rem.sdts, rem)

\* client.add_sdt(sdt): the new SDT gets the next id
add_sdt(rem, sdt) ==
    LET created == [sdt EXCEPT !.id = I(rem.next_id)]
    IN Answer(200, created,
              [rem EXCEPT !.sdts = Append(rem.sdts, created),
                          !.next_id = rem.next_id + 1])

\* client.delete_sdt_by_id(str(id))
delete_sdt_by_id(rem, idstr) ==
    LET id == Addressed(idstr)
    IN IF id \notin IdsOf(rem.sdts) THEN Answer(1404, None, rem)
       ELSE Answer(200, None,
                   [rem EXCEPT !.sdts = SelectSeq2(rem.sdts, IdsOf(rem.sdts) \ {id})])

\* client.get_device_list()
get_device_list(rem) == Answer(200, rem.devices, rem)

(***************************************************************************)
(* Object Comparator                                                       *)
(***************************************************************************)
\* exclude_keys of each module's compare_objects
exclude_keys(m) ==
    CASE m = "sdk_device_group" -> {"full_path"}
      [] m \in {"sdk_collector_sdt", "device_sdt"} -> {"custom_properties"}
      [] OTHER -> {}

\* one "for k in dict_x" loop of compare_objects over the keys left in ks:
\* FALSE as soon as a key that is non-null on both sides has different
\* string forms (the early return), TRUE when the loop runs to its end
RECURSIVE compare_loop(_, _, _, _)
compare_loop(ks, dict_x, dict_y, excl) ==
    IF ks = {} THEN TRUE
    ELSE LET k == CHOOSE e \in ks : TRUE
         IN IF k \in excl
            THEN compare_loop(ks \ {k}, dict_x, dict_y, excl)
            ELSE IF /\ dict_x[k] # None
                    /\ k \in DOMAIN dict_y
                    /\ dict_y[k] # None
                    /\ Str(dict_x[k]) # Str(dict_y[k])
                 THEN FALSE
                 ELSE compare_loop(ks \ {k}, dict_x, dict_y, excl)

\* mutant: compares the values, not their string forms
compare_objects_values(dict_1, dict_2, m) ==
    \A k \in (DOMAIN dict_1 \cap DOMAIN dict_2) \ exclude_keys(m) :
        (dict_1[k] # None /\ dict_2[k] # None) => dict_1[k] = dict_2[k]

compare_objects(dict_1, dict_2, m) ==
    /\ compare_loop(DOMAIN dict_1, dict_1, dict_2, exclude_keys(m))
    /\ compare_loop(DOMAIN dict_2, dict_2, dict_1, exclude_keys(m))

(***************************************************************************)
(* Specification of the comparator alone: every pair of field maps over    *)
(* CmpKeys with values in CmpValues, under every module's exclusion set    *)
(***************************************************************************)
CmpKeys == {"description", "full_path", "custom_properties"}
CmpValues == {None, I(1), S(<<"1">>), S(<<"2">>)}
CmpDicts == UNION {[ks -> CmpValues] : ks \in SUBSET CmpKeys}

CmpInit ==
    /\ cmp_in \in [a : CmpDicts, b : CmpDicts, kind : Kinds]
    /\ cmp_out = [done |-> FALSE, equal |-> FALSE]
    /\ kind = "collector" /\ params = None /\ results = <<>>
    /\ run = None /\ calls = <<>> /\ remote = None /\ host = None

CmpApply ==
    /\ ~cmp_out.done
    /\ cmp_out' = [done |-> TRUE,
                   equal |-> compare_objects(cmp_in.a, cmp_in.b, cmp_in.kind)]
    /\ UNCHANGED <<cmp_in, run_vars>>

CmpNext == CmpApply

SpecCompare == CmpInit /\ [][CmpNext]_vars

\* the keys that decide the comparison
CmpDeciding(a, b, m) ==
    {k \in (DOMAIN a \cap DOMAIN b) \ exclude_keys(m) : a[k] # None /\ b[k] # None}

\* C1: compare_objects is true exactly when every key that is non-null on
\* both sides and not excluded has equal string forms on both sides
C1_CompareIffCommonEqual ==
    cmp_out.done =>
        (cmp_out.equal <=>
            \A k \in CmpDeciding(cmp_in.a, cmp_in.b, cmp_in.kind) :
                Str(cmp_in.a[k]) = Str(cmp_in.b[k]))

\* C1 witness: an int and a str with the same string form compared equal
\* while an excluded key and a null key differ
C1_Witness ==
    /\ cmp_out.done
    /\ cmp_out.equal
    /\ cmp_in.kind = "sdk_device_group"
    /\ "description" \in DOMAIN cmp_in.a /\ "description" \in DOMAIN cmp_in.b
    /\ cmp_in.a["description"] = I(1) /\ cmp_in.b["description"] = S(<<"1">>)
    /\ "full_path" \in DOMAIN cmp_in.a /\ "full_path" \in DOMAIN cmp_in.b
    /\ cmp_in.a["full_path"] = S(<<"1">>) /\ cmp_in.b["full_path"] = S(<<"2">>)
    /\ "custom_properties" \in DOMAIN cmp_in.a
    /\ "custom_properties" \in DOMAIN cmp_in.b
    /\ cmp_in.a["custom_properties"] = None
    /\ cmp_in.b["custom_properties"] = S(<<"2">>)
(***************************************************************************)
(* One invocation of a module                                              *)
(***************************************************************************)
NewRun(cm, rem, h, p) ==
    [pc |-> "selector", check_mode |-> cm, params |-> p, obj |-> None,
     found_obj |-> None, finder |-> "pending", cmp |-> "none",
     stack |-> <<>>, var_changed |-> FALSE, installer |-> None, outcome |-> "running", changed |-> FALSE,
     payload |-> None, faulted |-> FALSE, remote0 |-> rem, host0 |-> h]

\* module.exit_json(**payload)
exit_json(r, payload) ==
    [r EXCEPT !.pc = "done", !.outcome = "success",
              !.changed = Truthy(payload.changed), !.payload = payload]

\* module.fail_json(msg=err, changed=changed, failed=True)
fail_json(r, changed) ==
    [r EXCEPT !.pc = "done", !.outcome = "failed", !.changed = changed]

\* an exception nothing catches (AttributeError, TypeError, NameError)
Uncaught(r) == [r EXCEPT !.pc = "done", !.outcome = "crashed"]

Normal == <<"N", "o", "r", "m", "a", "l">>
CollectorSDT == <<"C", "o", "l", "l", "e", "c", "t", "o", "r", "S", "D", "T">>
DeviceSDT == <<"D", "e", "v", "i", "c", "e", "S", "D", "T">>
ONE_TIME_SDT == 1

\* format_custom_properties(properties): the list of name and value pairs,
\* empty for the empty dictionary
format_custom_properties(properties) ==
    IF properties = <<>> THEN EmptyList
    ELSE [t |-> "list", v |-> <<"[">> \o properties \o <<"]">>]

\* get_obj / get_object of the device group modules
get_obj_device_group(m, p) ==
    [id |-> None,
     name |-> IF m = "sdk_device_group"
              THEN S(parse_name_from_path(p.full_path.v, PATH_DELIM))
              ELSE None,
     parent_id |-> None,
     full_path |-> IF m = "sdk_device_group" THEN p.full_path
                   ELSE S(Lstrip(p.full_path.v, "/")),
     description |-> p.description,
     disable_alerting |-> B(Truthy(p.disable_alerting)),
     custom_properties |-> format_custom_properties(p.properties),
     group_type |-> S(Normal),
     applies_to |-> IF Truthy(p.applies_to) THEN p.applies_to ELSE None]

\* get_object of the collector group module
get_obj_collector_group(p) ==
    [id |-> None, name |-> p.name, description |-> p.description]

\* socket.getfqdn()
getfqdn == <<"f", "q", "d", "n">>

\* get_obj of the collector modules once the collector group is known
get_obj_collector(m, p, collector_group_id) ==
    [id |-> IF Truthy(p.id) THEN p.id ELSE None,
     description |-> IF Truthy(p.description) THEN p.description ELSE S(getfqdn),
     backup_agent_id |-> IF Truthy(p.backup_collector_id)
                         THEN p.backup_collector_id ELSE None,
     enable_fail_back |-> p.enable_fail_back,
     escalating_chain_id |-> p.escalation_chain_id,
     resend_ival |-> IF Truthy(p.resend_interval) THEN p.resend_interval ELSE None,
     suppress_alert_clear |-> IF Truthy(p.suppress_alert_clear)
                              THEN p.suppress_alert_clear ELSE None,
     collector_group_id |-> collector_group_id,
     need_auto_create_collector_device |->
        IF m = "sdk_collector" THEN B(FALSE) ELSE None,
     build |-> None]

\* get_obj of the SDT modules, from the parameters selector has parsed
get_obj_sdt(m, p) ==
    IF m = "sdk_collector_sdt"
    THEN [id |-> None, type |-> S(CollectorSDT), collector_id |-> p.collector_id,
          comment |-> p.comment, start_date_time |-> p.start_time,
          end_date_time |-> p.end_date_time, sdt_type |-> p.sdt_type]
    ELSE [id |-> None, type |-> S(DeviceSDT),
          device_id |-> IF Truthy(p.device_id) THEN p.device_id ELSE None,
          device_display_name |-> IF Truthy(p.device_display_name)
                                  THEN p.device_display_name ELSE None,
          comment |-> p.comment, start_date_time |-> p.start_time,
          end_date_time |-> p.end_date_time, sdt_type |-> p.sdt_type]

get_obj(m, p) ==
    CASE m \in {"sdk_device_group", "device_group"} -> get_obj_device_group(m, p)
      [] m = "collector_group" -> get_obj_collector_group(p)
      [] m \in {"sdk_collector_sdt", "device_sdt"} -> get_obj_sdt(m, p)

\* set_update_fields(obj_1, obj_2) of each module
set_update_fields(m, obj_1, obj_2) ==
    CASE m \in {"sdk_device_group", "device_group"} ->
            [obj_1 EXCEPT !.id = obj_2.id, !.name = obj_2.name,
                          !.parent_id = obj_2.parent_id]
      [] m = "collector_group" ->
            [obj_1 EXCEPT !.id = obj_2.id, !.name = obj_2.name]
      [] OTHER -> [obj_1 EXCEPT !.id = obj_2.id]

\* compare_obj(obj_1, obj_2)
compare_obj(m, obj_1, obj_2) == compare_objects(obj_1, obj_2, m)

\* succeed(changed, obj, module) of the sdk modules; obj.id of None raises
succeed(m, changed, obj, r) ==
    IF obj = None THEN Uncaught(r)
    ELSE CASE m = "sdk_device_group" ->
                exit_json(r, [changed |-> B(changed), success |-> B(TRUE),
                              id |-> S(Str(obj.id)), name |-> obj.name,
                              full_path |-> obj.full_path,
                              description |-> obj.description,
                              disable_alerting |-> obj.disable_alerting,
                              custom_properties |-> S(Str(obj.custom_properties))])
           [] m = "sdk_collector" ->
                exit_json(r, [changed |-> B(changed), success |-> B(TRUE),
                              id |-> S(Str(obj.id)),
                              description |-> obj.description,
                              backup_agent_id |-> obj.backup_agent_id,
                              enable_fail_back |-> obj.enable_fail_back,
                              resend_interval |-> obj.resend_ival,
                              suppress_alert_clear |-> obj.suppress_alert_clear,
                              escalation_chain_id |-> obj.escalating_chain_id])
           [] m = "sdk_collector_sdt" ->
                exit_json(r, [changed |-> B(changed), success |-> B(TRUE),
                              id |-> S(Str(obj.id)), comment |-> obj.comment,
                              start_date_time |-> obj.end_date_time,
                              end_date_time |-> obj.end_date_time])

\* the exit of a run: succeed(changed, obj, module) in the sdk modules,
\* module.exit_json(changed=changed) in the others
finish(m, changed, obj, r) ==
    IF m \in SdkKinds THEN succeed(m, changed, obj, r)
    ELSE exit_json(r, [changed |-> B(changed)])

Top(stack) == stack[Len(stack)]

\* create_device_group up to its first call: the name and the parent path
\* of the group on top of the stack; parent_id 1 when the parent path is empty
create_device_group(m, r) ==
    LET dg == Top(r.stack)
        name == IF m = "sdk_device_group"
                THEN parse_name_from_path(dg.full_path.v, PATH_DELIM)
                ELSE LET n == Rsplit1(dg.full_path.v, "/") IN n[Len(n)]
        named == [dg EXCEPT !.name = S(name)]
    IN IF parent_path_of(dg.full_path.v) = <<>>
       THEN [r EXCEPT !.stack[Len(r.stack)] = [named EXCEPT !.parent_id = I(1)],
                      !.pc = "add_obj"]
       ELSE [r EXCEPT !.stack[Len(r.stack)] = named, !.pc = "find_parent"]

\* a create_device_group that calls itself for the group it was called for,
\* not for the parent of that group
create_device_group_same_path(m, r, parent_group) ==
    LET dg == Top(r.stack)
    IN IF parent_group # None
       THEN [r EXCEPT !.stack[Len(r.stack)].parent_id = parent_group.id,
                      !.pc = "add_obj"]
       ELSE create_device_group(m, [r EXCEPT !.stack = Append(r.stack, dg)])

\* create_device_group after find_obj(client, parent_path, module)
create_device_group_parent(m, r, parent_group) ==
    LET dg == Top(r.stack)
    IN IF parent_group # None
       THEN [r EXCEPT !.stack[Len(r.stack)].parent_id = parent_group.id,
                      !.pc = "add_obj"]
       ELSE create_device_group(m,
                [r EXCEPT !.stack = Append(r.stack,
                    [dg EXCEPT !.full_path = S(parent_path_of(dg.full_path.v))])])

\* add_obj after the call: resp.data, the object itself on status 600
add_obj_result(m, sent, resp) ==
    IF resp.status = 200 THEN resp.data
    ELSE IF resp.status = 600 /\ m # "sdk_collector_sdt" THEN sent
    ELSE None

\* the return of create_device_group with an exit that reports changed=false
create_device_group_unchanged(m, r, ret) ==
    LET rest == SubSeq(r.stack, 1, Len(r.stack) - 1)
    IN IF rest # <<>>
       THEN [r EXCEPT !.stack = [rest EXCEPT ![Len(rest)].parent_id = ret.id],
                      !.pc = "add_obj"]
       ELSE finish(m, FALSE, ret, [r EXCEPT !.stack = <<>>, !.obj = ret])

\* the return of create_device_group to its caller: the recursive call's
\* parent.id, or ensure_present's exit
create_device_group_return(m, r, ret) ==
    LET rest == SubSeq(r.stack, 1, Len(r.stack) - 1)
    IN IF rest # <<>>
       THEN [r EXCEPT !.stack = [rest EXCEPT ![Len(rest)].parent_id = ret.id],
                      !.pc = "add_obj"]
       ELSE finish(m, TRUE, ret, [r EXCEPT !.stack = <<>>, !.obj = ret])

\* the run once its finder has returned
Found(r, found) ==
    [r EXCEPT !.found_obj = found,
              !.finder = IF found = None THEN "not_found" ELSE "found"]

\* the run once compare_obj has returned
Compared(r, equal) == [r EXCEPT !.cmp = IF equal THEN "equal" ELSE "unequal"]

\* ensure_present and ensure_absent after find_obj, in the modules that keep
\* no local installation
ensure_after_find(m, p, r0, found) ==
    LET r == Found(r0, found)
    IN IF p.state = "present"
       THEN IF found = None
            THEN IF r.check_mode THEN finish(m, TRUE, r.obj, r)
                 ELSE IF m \in {"sdk_device_group", "device_group"}
                      THEN create_device_group(m, [r EXCEPT !.stack = <<r.obj>>])
                      ELSE [r EXCEPT !.pc = "add_obj"]
            ELSE IF m \in {"sdk_collector_sdt", "device_sdt"}
                 THEN finish(m, FALSE, r.obj, r)
                 ELSE IF ~compare_obj(m, r.obj, found)
                      THEN IF r.check_mode
                           THEN finish(m, TRUE, r.obj, Compared(r, FALSE))
                           ELSE [Compared(r, FALSE) EXCEPT
                                    !.obj = set_update_fields(m, r.obj, found),
                                    !.pc = "update_obj"]
                      ELSE finish(m, FALSE, r.obj, Compared(r, TRUE))
       ELSE IF found = None
            THEN IF m \in SdkKinds
                 THEN LET obj == get_obj(m, p)
                      IN succeed(m, FALSE, obj, [r EXCEPT !.obj = obj])
                 ELSE finish(m, FALSE, None, r)
            ELSE IF r.check_mode
                 THEN finish(m, TRUE, found, [r EXCEPT !.obj = found])
                 ELSE [r EXCEPT !.obj = found, !.pc = "delete_obj"]

(***************************************************************************)
(* The collector modules: the remote collector and the local agent         *)
(***************************************************************************)
NANO_HEAP == <<"1", "0", "2", "4">>
SMALL_HEAP == <<"1", "0", "2", "4">>
MEDIUM_HEAP == <<"2", "0", "4", "8">>
LARGE_HEAP == <<"4", "0", "9", "6">>

NANO_SIZE == <<"n", "a", "n", "o">>
SMALL_SIZE == <<"s", "m", "a", "l", "l">>
MEDIUM_SIZE == <<"m", "e", "d", "i", "u", "m">>
LARGE_SIZE == <<"l", "a", "r", "g", "e">>

\* wrapper.java.maxmemory in the wrapper configuration an installer of a
\* size writes
HeapOf(size) ==
    CASE size = NANO_SIZE -> NANO_HEAP
      [] size = SMALL_SIZE -> SMALL_HEAP
      [] size = MEDIUM_SIZE -> MEDIUM_HEAP
      [] size = LARGE_SIZE -> LARGE_HEAP

\* collector_installed()
collector_installed(h) == h.installed

\* compare_installed_collector_size(size), heap being
\* get_config_value(WRAPPER_CONF, WRAPPER_HEAP_CONFIG)
compare_installed_collector_size(size, heap) ==
    \/ /\ heap = S(NANO_HEAP) \/ heap = S(SMALL_HEAP)
       /\ size = S(NANO_SIZE) \/ size = S(SMALL_SIZE)
    \/ heap = S(MEDIUM_HEAP) /\ size = S(MEDIUM_SIZE)
    \/ heap = S(LARGE_HEAP) /\ size = S(LARGE_SIZE)

\* destructive_updates(collector, params) of the sdk collector module
destructive_updates(collector, p, h) ==
    \/ /\ Truthy(p.collector_size)
       /\ ~compare_installed_collector_size(p.collector_size, h.heap)
    \/ /\ Truthy(p.collector_version)
       /\ collector.build # p.collector_version

\* the end of ensure_present without its test of module.check_mode
collector_install_unchecked(m, r, h) ==
    IF ~collector_installed(h)
    THEN [r EXCEPT !.pc = "download_installer"]
    ELSE finish(m, r.var_changed, r.obj, r)

\* the end of an ensure_present that leaves the agent as it finds it
collector_install_skipped(m, r, h) == finish(m, r.var_changed, r.obj, r)

\* the end of ensure_present: "if not collector_installed()" and the exit
collector_install_check(m, r, h) ==
    IF ~collector_installed(h)
    THEN IF r.check_mode THEN finish(m, TRUE, r.obj, r)
         ELSE [r EXCEPT !.pc = "download_installer"]
    ELSE finish(m, r.var_changed, r.obj, r)

\* ensure_present of the sdk collector module from "determine if any values
\* have changed that require a re-install"; the other collector module has
\* no such step here
collector_local(m, p, r, h) ==
    IF m = "sdk_collector" /\ collector_installed(h)
       /\ destructive_updates(r.obj, p, h)
    THEN IF r.check_mode
         THEN collector_install_check(m, [r EXCEPT !.var_changed = TRUE], h)
         ELSE [r EXCEPT !.pc = "uninstall_collector"]
    ELSE collector_install_check(m, r, h)

\* get_obj from find_collector_group_id / find_collector_group on: with
\* '/' there is no call, and the other collector module then reads .id of
\* the integer 1
collector_get_obj(m, p, r) ==
    IF p.collector_group = S(<<"/">>)
    THEN IF m = "sdk_collector"
         THEN [r EXCEPT !.obj = get_obj_collector(m, p, I(1)), !.pc = "got_obj"]
         ELSE Uncaught(r)
    ELSE [r EXCEPT !.pc = "find_collector_group"]

\* ensure_present and ensure_absent of the collector modules after find_obj
collector_after_find(m, p, r0, h, found) ==
    LET r == Found(r0, found)
    IN IF p.state = "present"
       THEN IF found = None
            THEN IF m = "sdk_collector" /\ Truthy(p.id) THEN fail_json(r, FALSE)
                 ELSE IF r.check_mode
                 THEN collector_local(m, p, [r EXCEPT !.var_changed = TRUE], h)
                 ELSE IF Truthy(p.id) THEN fail_json(r, FALSE)
                 ELSE [r EXCEPT !.pc = "add_obj"]
            ELSE IF ~compare_obj(m, r.obj, found)
                 THEN IF r.check_mode
                      THEN collector_local(m, p,
                              [Compared(r, FALSE) EXCEPT !.var_changed = TRUE], h)
                      ELSE [Compared(r, FALSE) EXCEPT
                                !.obj = set_update_fields(m, r.obj, found),
                                !.pc = "update_obj"]
                 ELSE collector_local(m, p,
                            [Compared(r, TRUE) EXCEPT !.obj.id = found.id], h)
       ELSE IF found = None
            THEN IF ~r.check_mode /\ collector_installed(h)
                 THEN IF m = "sdk_collector"
                      THEN LET g == collector_get_obj(m, p, r)
                           IN IF g.pc = "got_obj"
                              THEN [g EXCEPT !.pc = "uninstall_collector"]
                              ELSE g
                      ELSE Uncaught(r)   \* uninstall_collector takes 2 arguments
                 ELSE finish(m, FALSE, None, r)
            ELSE IF r.check_mode
                 THEN finish(m, TRUE, found, [r EXCEPT !.obj = found])
                 ELSE [r EXCEPT !.obj = found, !.pc = "delete_obj"]

\* find_obj of the collector modules up to its call; find_collector returns
\* None without a call when no description is given
collector_find(m, p, r, h) ==
    IF \/ Truthy(p.id) /\ (m = "sdk_collector" \/ p.state # "present")
       \/ Truthy(p.description)
    THEN [r EXCEPT !.pc = "find_obj"]
    ELSE collector_after_find(m, p, r, h, None)

\* the caller's code after get_obj has its collector group
collector_got_obj(m, p, r, h) ==
    IF p.state = "present" THEN collector_find(m, p, r, h)
    ELSE [r EXCEPT !.pc = "uninstall_collector"]

(***************************************************************************)
(* The steps of an invocation: one action for each call the module makes,  *)
(* with the code that runs between that call and the next                  *)
(***************************************************************************)
\* an entry of the call log
Call(op, id, obj, resp) ==
    [op |-> op, id |-> id, obj |-> obj, exc |-> resp.exc, status |-> resp.status,
     err |-> ""]

Noted(r, resp) == [r EXCEPT !.faulted = r.faulted \/ resp.fault]

\* parse_time(time, module): strptime(time, '%Y-%m-%d %H:%M'), for the days
\* of January 1970
TwoDigits(str, i) == ParseInt(SubSeq(str, i, i + 1), 0)

parse_time(time) ==
    LET well == /\ Len(time) = 16
                /\ SubSeq(time, 1, 8) = <<"1", "9", "7", "0", "-", "0", "1", "-">>
                /\ time[11] = " " /\ time[14] = ":"
                /\ TwoDigits(time, 9) \in 1..31
                /\ TwoDigits(time, 12) \in 0..23
                /\ TwoDigits(time, 15) \in 0..59
    IN IF well
       THEN [ok |-> TRUE, day |-> TwoDigits(time, 9), hour |-> TwoDigits(time, 12),
             minute |-> TwoDigits(time, 15)]
       ELSE [ok |-> FALSE, day |-> 0, hour |-> 0, minute |-> 0]

\* convert_datetime_to_epoch(date, module)
convert_datetime_to_epoch(date) ==
    (((date.day - 1) * 24 + date.hour) * 60 + date.minute) * 60 * 1000

\* calculate_end_time(start_epoch, duration, module)
calculate_end_time(start_epoch, duration) ==
    IntOf(start_epoch) + (IntOf(duration) * 60 * 1000)

\* whether parse_one_time_sdt reads the clock
reads_clock(m, p) ==
    m \in {"sdk_collector_sdt", "device_sdt"} /\ ~Truthy(p.start_time)

\* parse_one_time_sdt(module) after parse_sdt_type: the parameters with
\* start_time and end_date_time as epochs; ok is false when parse_time fails
parse_one_time_sdt(p, now) ==
    LET typed == [p EXCEPT !.sdt_type = I(ONE_TIME_SDT)]
        date == parse_time(p.start_time.v)
        start == IF ~Truthy(p.start_time) THEN I(now * 1000)
                 ELSE I(convert_datetime_to_epoch(date))
    IN IF Truthy(p.start_time) /\ ~date.ok THEN [ok |-> FALSE, params |-> typed]
       ELSE [ok |-> TRUE,
             params |-> [typed EXCEPT !.start_time = start,
                            !.end_date_time =
                                I(calculate_end_time(start, p.duration))]]

\* selector of the SDT modules from "translate sdt type string to int"
sdt_selector(m, p, r, now) ==
    LET parsed == parse_one_time_sdt(p, now)
        q == parsed.params
    IN IF ~parsed.ok THEN fail_json(r, FALSE)
       ELSE IF q.state = "present"
       THEN [r EXCEPT !.params = q, !.obj = get_obj(m, q), !.pc = "find_obj"]
       ELSE [r EXCEPT !.params = q, !.pc = "find_obj"]

\* a parse_device without its test for both device_id and
\* device_display_name
parse_device_unvalidated(m, p, r, now) ==
    IF ~Truthy(p.device_id) /\ ~Truthy(p.device_display_name)
    THEN [r EXCEPT !.pc = "find_device"]
    ELSE IF ~Truthy(p.device_id) THEN fail_json(r, FALSE)
    ELSE sdt_selector(m, p, r, now)

\* parse_device(client, module) up to its call
parse_device(m, p, r, now) ==
    IF Truthy(p.device_id) /\ Truthy(p.device_display_name)
    THEN fail_json(r, FALSE)
    ELSE IF ~Truthy(p.device_id) /\ ~Truthy(p.device_display_name)
    THEN [r EXCEPT !.pc = "find_device"]
    ELSE IF ~Truthy(p.device_id) THEN fail_json(r, FALSE)
    ELSE sdt_selector(m, p, r, now)

\* get_obj of the collector modules and what follows it
collector_selector(m, p, r, h) ==
    IF p.state = "present"
    THEN LET g == collector_get_obj(m, p, r)
         IN IF g.pc = "got_obj" THEN collector_got_obj(m, p, g, h) ELSE g
    ELSE collector_find(m, p, r, h)

\* selector up to the first call of the run
selector_step(m, p, r, h, now) ==
    CASE m \in {"sdk_device_group", "device_group"} ->
            IF p.state = "present"
            THEN [r EXCEPT !.obj = get_obj(m, p), !.pc = "find_obj"]
            ELSE [r EXCEPT !.pc = "find_obj"]
      [] m = "collector_group" ->
            IF p.name = None THEN fail_json(r, FALSE)
            ELSE IF p.state = "present"
            THEN [r EXCEPT !.obj = get_obj(m, p), !.pc = "find_obj"]
            ELSE [r EXCEPT !.pc = "find_obj"]
      [] m = "sdk_collector" ->
            \* collector_version is an int and has no replace()
            IF Truthy(p.collector_version) THEN Uncaught(r)
            ELSE collector_selector(m, p, r, h)
      [] m = "collector" -> collector_selector(m, p, r, h)
      [] m = "sdk_collector_sdt" -> sdt_selector(m, p, r, now)
      [] m = "device_sdt" -> parse_device(m, p, r, now)

\* time.time() does not go back
ClockReads(m, p, h) == IF reads_clock(m, p) THEN {h.now, h.now + 1} ELSE {h.now}

selector ==
    /\ run.pc = "selector"
    /\ \E now \in ClockReads(kind, run.params, host) :
            /\ host' = [host EXCEPT !.now = now]
            /\ run' = selector_step(kind, run.params, run, host, now)
    /\ UNCHANGED <<kind, params, results, calls, remote, cmp_vars>>

\* find_collector_group_id / find_collector_group after its call, and the
\* code of get_obj and its callers that follows
find_collector_group_step(m, p, r, h, resp) ==
    IF resp.exc THEN fail_json(r, FALSE)
    ELSE IF resp.status # 200
    THEN Uncaught(r)     \* the message reads e, which no except clause bound
    ELSE LET items == resp.data
             collector_group_name == Lstrip(p.collector_group.v, "/")
             item == first_item(items,
                        {i \in 1..Len(items) :
                            items[i].name = S(collector_group_name)})
         IN IF item = None THEN fail_json(r, FALSE)
            ELSE collector_got_obj(m, p,
                    [r EXCEPT !.obj = get_obj_collector(m, p, item.id)], h)

find_collector_group ==
    /\ run.pc = "find_collector_group"
    /\ \E resp \in Answers(get_collector_group_list(remote)) :
            /\ calls' = Append(calls,
                            Call("get_collector_group_list", None, None, resp))
            /\ remote' = resp.remote
            /\ run' = find_collector_group_step(kind, run.params,
                                                Noted(run, resp), host, resp)
    /\ UNCHANGED <<kind, params, results, host, cmp_vars>>

hostname == <<"h", "o", "s", "t", "n", "a", "m", "e", ".", "l", "m", ".", "n", "e", "t">>

\* find_device(client, hostname, module) after its call, and the code of
\* parse_device and selector that follows
find_device_step(m, p, r, now, resp) ==
    IF resp.exc THEN fail_json(r, FALSE)
    ELSE IF resp.status # 200 THEN Uncaught(r)
    ELSE LET items == resp.data
             item == first_item(items,
                        {i \in 1..Len(items) : items[i].name = S(hostname)})
             device_id == IF item = None THEN None ELSE S(Str(item.id))
         IN IF ~Truthy(device_id) THEN fail_json(r, FALSE)
            ELSE sdt_selector(m, [p EXCEPT !.device_id = device_id], r, now)

find_device ==
    /\ run.pc = "find_device"
    /\ \E resp \in Answers(get_device_list(remote)),
          now \in ClockReads(kind, run.params, host) :
            /\ calls' = Append(calls, Call("get_device_list", None, None, resp))
            /\ remote' = resp.remote
            /\ host' = [host EXCEPT !.now = IF resp.fault THEN host.now ELSE now]
            /\ run' = find_device_step(kind, run.params, Noted(run, resp), now, resp)
    /\ UNCHANGED <<kind, params, results, cmp_vars>>

\* fix_pagination_object(item, module): the item of the SDT list as a
\* dictionary with the keys of the REST resource
fix_pagination_object(item) ==
    [id |-> item.id, type |-> item.type, deviceId |-> item.device_id,
     deviceDisplayName |-> item.device_display_name, comment |-> item.comment,
     startDateTime |-> item.start_date_time, endDateTime |-> item.end_date_time,
     sdtType |-> item.sdt_type]

\* whether find_obj looks the collector up by its id
by_id(m, p) == Truthy(p.id) /\ (m = "sdk_collector" \/ p.state # "present")

\* the key find_obj looks for: the path or name with leading '/' stripped
find_key(m, p, r) ==
    CASE m = "sdk_device_group" -> Lstrip(p.full_path.v, "/")
      [] m = "device_group" ->
            IF p.state = "present" THEN Lstrip(r.obj.full_path.v, "/")
            ELSE Lstrip(p.full_path.v, "/")
      [] m = "collector_group" ->
            IF p.state = "present" THEN Lstrip(r.obj.name.v, "/")
            ELSE Lstrip(p.name.v, "/")

\* the call find_obj makes
find_call(m, p, rem) ==
    CASE m \in {"sdk_device_group", "device_group"} ->
            [op |-> "get_device_group_list", id |-> None,
             answer |-> get_device_group_list(rem)]
      [] m = "collector_group" ->
            [op |-> "get_collector_group_list", id |-> None,
             answer |-> get_collector_group_list(rem)]
      [] m \in {"sdk_collector", "collector"} ->
            IF by_id(m, p)
            THEN [op |-> "get_collector_by_id", id |-> S(Str(p.id)),
                  answer |-> get_collector_by_id(rem, Str(p.id))]
            ELSE [op |-> "get_collector_list", id |-> None,
                  answer |-> get_collector_list(rem)]
      [] m \in {"sdk_collector_sdt", "device_sdt"} ->
            [op |-> "get_sdt_list", id |-> None, answer |-> get_sdt_list(rem)]

\* the item find_obj returns from the fetched collection
find_scan(m, p, r, items) ==
    CASE m \in {"sdk_device_group", "device_group"} ->
            first_item(items,
                {i \in 1..Len(items) : items[i].full_path = S(find_key(m, p, r))})
      [] m = "collector_group" ->
            first_item(items,
                {i \in 1..Len(items) : items[i].name = S(find_key(m, p, r))})
      [] m \in {"sdk_collector", "collector"} ->
            first_item(items,
                {i \in 1..Len(items) : items[i].description = p.description})
      [] m = "sdk_collector_sdt" ->
            first_item(items,
                {i \in 1..Len(items) :
                    /\ items[i].type = S(CollectorSDT)
                    /\ Truthy(p.collector_id)
                    /\ IntOf(items[i].collector_id) = IntOf(p.collector_id)
                    /\ IntOf(items[i].start_date_time) = IntOf(p.start_time)
                    /\ IntOf(items[i].end_date_time) = IntOf(p.end_date_time)})
      [] m = "device_sdt" ->
            LET fixed == [i \in 1..Len(items) |-> fix_pagination_object(items[i])]
            IN first_item(fixed,
                {i \in 1..Len(fixed) :
                    /\ \/ /\ Truthy(p.device_id)
                          /\ IntOf(fixed[i].deviceId) = IntOf(p.device_id)
                       \/ /\ Truthy(p.device_display_name)
                          /\ fixed[i].deviceDisplayName = p.device_display_name
                    /\ IntOf(fixed[i].startDateTime) = IntOf(p.start_time)
                    /\ IntOf(fixed[i].endDateTime) = IntOf(p.end_date_time)})

\* a find_obj whose find_collector_by_id takes every status other than 200
\* for "no such agent"
find_obj_step_lenient(m, p, r, h, resp) ==
    IF resp.exc THEN fail_json(r, FALSE)
    ELSE IF m \in {"sdk_collector", "collector"}
    THEN IF by_id(m, p)
         THEN IF resp.status = 200 THEN collector_after_find(m, p, r, h, resp.data)
              ELSE collector_after_find(m, p, r, h, None)
         ELSE IF resp.status # 200 THEN Uncaught(r)
              ELSE collector_after_find(m, p, r, h, find_scan(m, p, r, resp.data))
    ELSE IF resp.status # 200 THEN Uncaught(r)
    ELSE ensure_after_find(m, p, r, find_scan(m, p, r, resp.data))

\* find_obj after its call, and the caller's code that follows
find_obj_step(m, p, r, h, resp) ==
    IF resp.exc THEN fail_json(r, FALSE)
    ELSE IF m \in {"sdk_collector", "collector"}
    THEN IF by_id(m, p)
         THEN IF resp.status = 200 THEN collector_after_find(m, p, r, h, resp.data)
              ELSE IF resp.status = 1069
              THEN collector_after_find(m, p, r, h, None)
              ELSE fail_json(r, FALSE)
         ELSE IF resp.status # 200 THEN Uncaught(r)
              ELSE collector_after_find(m, p, r, h, find_scan(m, p, r, resp.data))
    ELSE IF resp.status # 200
    THEN Uncaught(r)     \* the message reads e, which no except clause bound
    ELSE ensure_after_find(m, p, r, find_scan(m, p, r, resp.data))

find_obj ==
    /\ run.pc = "find_obj"
    /\ LET c == find_call(kind, run.params, remote)
       IN \E resp \in Answers(c.answer) :
            /\ calls' = Append(calls, Call(c.op, c.id, None, resp))
            /\ remote' = resp.remote
            /\ run' = find_obj_step(kind, run.params, Noted(run, resp), host, resp)
    /\ UNCHANGED <<kind, params, results, host, cmp_vars>>

\* find_obj(client, parent_path, module) in create_device_group
find_parent_step(m, r, resp) ==
    IF resp.exc THEN fail_json(r, FALSE)
    ELSE IF resp.status # 200 THEN Uncaught(r)
    ELSE LET items == resp.data
             key == Lstrip(parent_path_of(Top(r.stack).full_path.v), "/")
         IN create_device_group_parent(m, r,
                first_item(items, {i \in 1..Len(items) : items[i].full_path.v = key}))

find_parent ==
    /\ run.pc = "find_parent"
    /\ \E resp \in Answers(get_device_group_list(remote)) :
            /\ calls' = Append(calls, Call("get_device_group_list", None, None, resp))
            /\ remote' = resp.remote
            /\ run' = find_parent_step(kind, Noted(run, resp), resp)
    /\ UNCHANGED <<kind, params, results, host, cmp_vars>>

\* fix_polymorphic_object(src): the attributes of the object that are set,
\* under the keys of the REST resource
fix_polymorphic_object(src) ==
    LET all == [id |-> src.id, type |-> src.type, deviceId |-> src.device_id,
                deviceDisplayName |-> src.device_display_name,
                comment |-> src.comment, startDateTime |-> src.start_date_time,
                endDateTime |-> src.end_date_time, sdtType |-> src.sdt_type]
    IN [k \in {key \in DOMAIN all : Truthy(all[key])} |-> all[k]]

\* the SDT the account stores for such a dictionary
StoredSdt(dict) ==
    LET at(k) == IF k \in DOMAIN dict THEN dict[k] ELSE None
    IN [id |-> at("id"), type |-> at("type"), device_id |-> at("deviceId"),
        device_display_name |-> at("deviceDisplayName"),
        comment |-> at("comment"), start_date_time |-> at("startDateTime"),
        end_date_time |-> at("endDateTime"), sdt_type |-> at("sdtType")]

\* the object add_obj sends
add_sent(m, r) ==
    CASE m \in {"sdk_device_group", "device_group"} -> Top(r.stack)
      [] m = "device_sdt" -> fix_polymorphic_object(r.obj)
      [] OTHER -> r.obj

\* the call add_obj makes
add_call(m, rem, sent) ==
    CASE m \in {"sdk_device_group", "device_group"} ->
            [op |-> "add_device_group", answer |-> add_device_group(rem, sent)]
      [] m = "collector_group" ->
            [op |-> "add_collector_group", answer |-> add_collector_group(rem, sent)]
      [] m \in {"sdk_collector", "collector"} ->
            [op |-> "add_collector", answer |-> add_collector(rem, sent)]
      [] m = "sdk_collector_sdt" ->
            [op |-> "add_sdt", answer |-> add_sdt(rem, sent)]
      [] m = "device_sdt" ->
            [op |-> "add_sdt", answer |-> add_sdt(rem, StoredSdt(sent))]

\* add_obj after its call, and the caller's code that follows
add_obj_step(m, p, r, h, sent, resp) ==
    IF resp.exc THEN fail_json(r, FALSE)
    ELSE IF resp.status # 200 /\ (resp.status # 600 \/ m = "sdk_collector_sdt")
    THEN fail_json(r, FALSE)
    ELSE LET ret == add_obj_result(m, sent, resp)
         IN CASE m \in {"sdk_device_group", "device_group"} ->
                    create_device_group_return(m, r, ret)
              [] m = "sdk_collector" ->
                    collector_local(m, p, [r EXCEPT !.obj = ret,
                                                    !.var_changed = TRUE], h)
              [] m = "collector" ->
                    collector_local(m, p, [r EXCEPT !.obj.id = ret.id,
                                                    !.var_changed = TRUE], h)
              [] m = "sdk_collector_sdt" ->
                    succeed(m, TRUE, ret, [r EXCEPT !.obj = ret])
              [] m \in {"collector_group", "device_sdt"} ->
                    exit_json(r, [changed |-> B(TRUE)])

add_obj ==
    /\ run.pc = "add_obj"
    /\ LET sent == add_sent(kind, run)
           c == add_call(kind, remote, sent)
       IN \E resp \in Answers(c.answer) \cup {AlreadyExists(c.answer)} :
            /\ calls' = Append(calls, Call(c.op, None, sent, resp))
            /\ remote' = resp.remote
            /\ run' = add_obj_step(kind, run.params, Noted(run, resp), host,
                                   sent, resp)
    /\ UNCHANGED <<kind, params, results, host, cmp_vars>>

\* the call update_obj makes, addressed by str(obj.id)
update_call(m, rem, obj) ==
    CASE m \in {"sdk_device_group", "device_group"} ->
            [op |-> "update_device_group_by_id",
             answer |-> update_device_group_by_id(rem, Str(obj.id), obj)]
      [] m = "collector_group" ->
            [op |-> "update_collector_group_by_id",
             answer |-> update_collector_group_by_id(rem, Str(obj.id), obj)]
      [] m \in {"sdk_collector", "collector"} ->
            [op |-> "update_collector_by_id",
             answer |-> update_collector_by_id(rem, Str(obj.id), obj)]

\* an update_obj whose caller goes on to delete the object it has updated
update_obj_step_then_delete(m, p, r, h, resp) ==
    IF resp.exc \/ resp.status # 200 THEN fail_json(r, FALSE)
    ELSE [r EXCEPT !.pc = "delete_obj"]

\* update_obj after its call, and the caller's code that follows
update_obj_step(m, p, r, h, resp) ==
    IF resp.exc \/ resp.status # 200 THEN fail_json(r, FALSE)
    ELSE CASE m = "sdk_device_group" ->
                succeed(m, TRUE, resp.data, [r EXCEPT !.obj = resp.data])
           [] m \in {"device_group", "collector_group"} ->
                exit_json(r, [changed |-> B(TRUE)])
           [] m = "sdk_collector" ->
                collector_local(m, p, [r EXCEPT !.obj = resp.data,
                                                !.var_changed = TRUE], h)
           [] m = "collector" ->
                \* destructive_updates() is called without its arguments
                IF collector_installed(h) THEN Uncaught(r)
                ELSE collector_install_check(m, [r EXCEPT !.var_changed = TRUE], h)

update_obj ==
    /\ run.pc = "update_obj"
    /\ LET c == update_call(kind, remote, run.obj)
       IN \E resp \in Answers(c.answer) :
            /\ calls' = Append(calls, Call(c.op, S(Str(run.obj.id)), run.obj, resp))
            /\ remote' = resp.remote
            /\ run' = update_obj_step(kind, run.params, Noted(run, resp), host, resp)
    /\ UNCHANGED <<kind, params, results, host, cmp_vars>>

\* the call delete_obj makes, addressed by str(obj.id)
delete_call(m, rem, obj) ==
    CASE m \in {"sdk_device_group", "device_group"} ->
            [op |-> "delete_device_group_by_id",
             answer |-> delete_device_group_by_id(rem, Str(obj.id))]
      [] m = "collector_group" ->
            [op |-> "delete_collector_group_by_id",
             answer |-> delete_collector_group_by_id(rem, Str(obj.id))]
      [] m \in {"sdk_collector", "collector"} ->
            [op |-> "delete_collector_by_id",
             answer |-> delete_collector_by_id(rem, Str(obj.id))]
      [] m \in {"sdk_collector_sdt", "device_sdt"} ->
            [op |-> "delete_sdt_by_id",
             answer |-> delete_sdt_by_id(rem, Str(obj.id))]

\* delete_obj after its call, and the caller's code that follows
delete_obj_step(m, r, h, resp) ==
    IF resp.exc \/ resp.status # 200 THEN fail_json(r, FALSE)
    ELSE CASE m = "sdk_collector" ->
                IF collector_installed(h)
                THEN [r EXCEPT !.pc = "uninstall_collector"]
                ELSE finish(m, TRUE, r.obj, r)
           [] m = "collector" ->
                \* uninstall_collector takes 2 arguments and is given 3
                IF collector_installed(h) THEN Uncaught(r)
                ELSE finish(m, TRUE, r.obj, r)
           [] OTHER -> finish(m, TRUE, r.obj, r)

delete_obj ==
    /\ run.pc = "delete_obj"
    /\ LET c == delete_call(kind, remote, run.obj)
       IN \E resp \in Answers(c.answer) :
            /\ calls' = Append(calls, Call(c.op, S(Str(run.obj.id)), None, resp))
            /\ remote' = resp.remote
            /\ run' = delete_obj_step(kind, Noted(run, resp), host, resp)
    /\ UNCHANGED <<kind, params, results, host, cmp_vars>>

\* module.run_command(...): exit code and stderr; the command has had its
\* effect exactly when the exit code is 0
CommandResults ==
    {[rc |-> 0, err |-> ""], [rc |-> 1, err |-> ""],
     [rc |-> 0 - 1, err |-> ""], [rc |-> 0, err |-> "e"]}

CommandCall(op, res) ==
    [op |-> op, id |-> None, obj |-> None, exc |-> FALSE, status |-> res.rc,
     err |-> res.err]

CommandNoted(r, res) ==
    [r EXCEPT !.faulted = r.faulted \/ res # [rc |-> 0, err |-> ""]]

\* uninstall_collector(client, module) after the uninstaller has run, and
\* the caller's code that follows
uninstall_collector_step(m, p, r, h, res) ==
    IF res.rc < 0 \/ res.err # "" THEN fail_json(r, TRUE)
    ELSE IF p.state = "present"
    THEN collector_install_check(m, [r EXCEPT !.var_changed = TRUE], h)
    ELSE finish(m, r.found_obj # None, r.obj, r)

uninstall_collector ==
    /\ run.pc = "uninstall_collector"
    /\ \E res \in CommandResults :
        LET h == IF res.rc = 0
                 THEN [host EXCEPT !.installed = FALSE, !.heap = None]
                 ELSE host
        IN /\ calls' = Append(calls, CommandCall("run_uninstaller", res))
           /\ host' = h
           /\ run' = uninstall_collector_step(kind, run.params,
                                              CommandNoted(run, res), h, res)
    /\ UNCHANGED <<kind, params, results, remote, cmp_vars>>

\* download_installer(client, collector, params, module) after its call; the
\* status of the response is not looked at
download_installer_step(m, r, resp) ==
    IF resp.exc THEN fail_json(r, TRUE)
    ELSE IF m = "collector" /\ resp.data = None
    THEN Uncaught(r)     \* open(resp, "w") raises and f.close() has no f
    ELSE [r EXCEPT !.installer = resp.data, !.pc = "install_collector"]

download_installer ==
    /\ run.pc = "download_installer"
    /\ LET idstr == Str(run.obj.id)
           regular == install_collector_api(remote, idstr, run.params.collector_size)
       IN \E resp \in Answers(regular) :
            /\ calls' = Append(calls, Call("install_collector", S(idstr), None, resp))
            /\ remote' = resp.remote
            /\ host' = [host EXCEPT !.installer = resp.data # None]
            /\ run' = download_installer_step(kind, Noted(run, resp), resp)
    /\ UNCHANGED <<kind, params, results, cmp_vars>>

\* what running the installer can give: nothing but "command not found"
\* when no installer was downloaded
InstallerResults(installer) ==
    IF installer = None THEN {[rc |-> 127, err |-> "e"]} ELSE CommandResults

\* install_collector after download_installer: the installer runs and is
\* removed; the sdk module fails on any non-zero exit code and then removes
\* the agent directory
install_collector_step(m, r, res) ==
    LET fail == IF m = "sdk_collector" THEN res.rc # 0 \/ res.err # ""
                ELSE res.rc < 0 \/ res.err # ""
    IN IF fail THEN fail_json(r, TRUE) ELSE finish(m, TRUE, r.obj, r)

install_collector ==
    /\ run.pc = "install_collector"
    /\ \E res \in InstallerResults(run.installer) :
        LET ran == IF res.rc = 0
                   THEN [host EXCEPT !.installed = TRUE,
                                     !.heap = S(HeapOf(run.installer.v))]
                   ELSE host
            failed == res.rc # 0 \/ res.err # ""
        IN /\ calls' = Append(calls, CommandCall("run_installer", res))
           /\ host' = [ran EXCEPT
                         !.installer = FALSE,
                         !.installed = IF kind = "sdk_collector" /\ failed
                                       THEN FALSE ELSE ran.installed,
                         !.heap = IF kind = "sdk_collector" /\ failed
                                  THEN None ELSE ran.heap]
           /\ run' = install_collector_step(kind, CommandNoted(run, res), res)
    /\ UNCHANGED <<kind, params, results, remote, cmp_vars>>

(***************************************************************************)
(* A session: the module is invoked once for every entry of plan, with     *)
(* the same parameters, each invocation after the one before it has ended  *)
(***************************************************************************)
Summary(r, log) ==
    [outcome |-> r.outcome, changed |-> r.changed, payload |-> r.payload,
     check_mode |-> r.check_mode, faulted |-> r.faulted, calls |-> log,
     finder |-> r.finder, cmp |-> r.cmp, found_obj |-> r.found_obj,
     remote0 |-> r.remote0, host0 |-> r.host0]

\* module.check_mode of the invocations of a session: a dry run, the run it
\* predicts, and that run repeated
Plan == <<TRUE, FALSE, FALSE>>

\* the next invocation starts when the one before it has ended; a session
\* ends with the first invocation that met a failing call or command
NextRun ==
    /\ run.pc = "done"
    /\ ~run.faulted
    /\ Len(results) + 1 < Len(Plan)
    /\ results' = Append(results, Summary(run, calls))
    /\ run' = NewRun(Plan[Len(results) + 2], remote, host, params)
    /\ calls' = <<>>
    /\ UNCHANGED <<kind, params, remote, host, cmp_vars>>

(***************************************************************************)
(* Initial states                                                          *)
(***************************************************************************)
MaxDepth == 3

Names == {"a", "b"}
\* the segment sequences of the paths considered, all below the top-level
\* group a
SegPaths == {segs \in UNION {[1..n -> Names] : n \in 1..MaxDepth} : segs[1] = "a"}

\* the path string of a sequence of segment names, without leading '/'
PathString(segs) == Join([i \in 1..Len(segs) |-> <<segs[i]>>], "/")

Descriptions == {<<"x">>, <<"y">>}

\* the device groups of an account that holds the groups on the way to segs
Chain(segs) ==
    [i \in 1..Len(segs) |->
        [id |-> I(i + 1), name |-> S(<<segs[i]>>), parent_id |-> I(i),
         full_path |-> S(PathString(SubSeq(segs, 1, i))),
         description |-> S(<<"x">>), disable_alerting |-> B(FALSE),
         custom_properties |-> format_custom_properties(<<>>),
         group_type |-> S(Normal), applies_to |-> None]]

EmptyRemote ==
    [device_groups |-> <<>>, collector_groups |-> <<>>, collectors |-> <<>>,
     sdts |-> <<>>, devices |-> <<>>, next_id |-> 2]

IdleHost == [installed |-> FALSE, heap |-> None, installer |-> FALSE, now |-> 100]

States == {"present", "absent"}

InitDeviceGroup ==
    /\ kind \in {"sdk_device_group", "device_group"}
    /\ \E st \in States, segs \in SegPaths, lead \in {<<>>, <<"/">>},
          d \in Descriptions :
            params = [state |-> st, full_path |-> S(lead \o PathString(segs)),
                      description |-> S(d), disable_alerting |-> B(FALSE),
                      applies_to |-> None, properties |-> <<>>]
    /\ \E segs \in SegPaths \cup {<<>>} :
            remote = [EmptyRemote EXCEPT !.device_groups = Chain(segs),
                                         !.next_id = Len(segs) + 2]
    /\ host = IdleHost

\* the collector group g of the account
GroupG == [id |-> I(3), name |-> S(<<"g">>), description |-> S(<<"x">>)]

InitCollectorGroup ==
    /\ kind = "collector_group"
    /\ \E st \in States, lead \in {<<>>, <<"/">>}, d \in Descriptions :
            params = [state |-> st, name |-> S(lead \o <<"g">>), description |-> S(d)]
    /\ \E groups \in {<<>>, <<GroupG>>} :
            remote = [EmptyRemote EXCEPT !.collector_groups = groups, !.next_id = 10]
    /\ host = IdleHost

\* the collector of the account
Collector2 ==
    [id |-> I(2), description |-> S(<<"x">>), backup_agent_id |-> I(0),
     enable_fail_back |-> B(FALSE), escalating_chain_id |-> I(1),
     resend_ival |-> I(15), suppress_alert_clear |-> B(FALSE),
     collector_group_id |-> I(1), need_auto_create_collector_device |-> B(FALSE),
     build |-> S(<<"2", "6">>)]

CollectorParams ==
    [state : States, id : {None, I(2)}, description : {None, S(<<"x">>)},
     resend_interval : {I(15), I(60)},
     collector_group : {S(<<"/">>), S(<<"g">>), S(<<"h">>)},
     collector_size : {S(SMALL_SIZE), S(MEDIUM_SIZE)},
     collector_version : {None}, backup_collector_id : {None},
     enable_fail_back : {B(FALSE)}, escalation_chain_id : {I(1)},
     suppress_alert_clear : {B(FALSE)}]

\* a parameter set that asks for a collector version
VersionParams ==
    [state |-> "present", id |-> None, description |-> S(<<"x">>),
     resend_interval |-> I(15), collector_group |-> S(<<"/">>),
     collector_size |-> S(SMALL_SIZE), collector_version |-> I(26),
     backup_collector_id |-> None, enable_fail_back |-> B(FALSE),
     escalation_chain_id |-> I(1), suppress_alert_clear |-> B(FALSE)]

InitCollector ==
    /\ \/ kind = "sdk_collector" /\ params \in CollectorParams \cup {VersionParams}
       \/ kind = "collector" /\ params \in CollectorParams
    /\ \E collectors \in {<<>>, <<Collector2>>} :
            remote = [EmptyRemote EXCEPT !.collectors = collectors,
                                         !.collector_groups = <<GroupG>>,
                                         !.next_id = 10]
    /\ host \in {IdleHost,
                 [IdleHost EXCEPT !.installed = TRUE, !.heap = S(SMALL_HEAP)]}

\* '1970-01-01 00:0m'
Date(m) ==
    <<"1", "9", "7", "0", "-", "0", "1", "-", "0", "1", " ", "0", "0", ":", "0", Digit(m)>>

\* a one-time SDT of 15 minutes from an epoch on
Sdt(id, type, start) ==
    [id |-> I(id), type |-> S(type), comment |-> S(<<>>),
     start_date_time |-> I(start), end_date_time |-> I(start + 900000),
     sdt_type |-> I(ONE_TIME_SDT)]

CollectorSdt(id, type, start) ==
    [k \in DOMAIN Sdt(id, type, start) \cup {"collector_id"} |->
        IF k = "collector_id"
        THEN (IF type = CollectorSDT THEN I(2) ELSE None)
        ELSE Sdt(id, type, start)[k]]

DeviceSdt(id, start) ==
    [k \in DOMAIN Sdt(id, DeviceSDT, start)
             \cup {"device_id", "device_display_name"} |->
        CASE k = "device_id" -> I(5)
          [] k = "device_display_name" -> S(<<"d">>)
          [] OTHER -> Sdt(id, DeviceSDT, start)[k]]

InitCollectorSdt ==
    /\ kind = "sdk_collector_sdt"
    /\ \E st \in States,
          start \in {None, S(Date(1)), S(<<"s", "o", "o", "n">>)} :
            params = [state |-> st, collector_id |-> S(<<"2">>),
                      comment |-> S(<<>>), duration |-> I(15),
                      start_time |-> start, end_date_time |-> None,
                      sdt_type |-> None]
    /\ \E sdts \in {<<>>,
                    <<CollectorSdt(5, CollectorSDT, 60000)>>,
                    <<CollectorSdt(5, DeviceSDT, 60000),
                      CollectorSdt(6, CollectorSDT, 60000)>>,
                    <<CollectorSdt(5, CollectorSDT, 100000)>>} :
            remote = [EmptyRemote EXCEPT !.sdts = sdts, !.next_id = 10]
    /\ host = IdleHost

InitDeviceSdt ==
    /\ kind = "device_sdt"
    /\ \E st \in States, id \in {None, S(<<"5">>)}, name \in {None, S(<<"d">>)},
          start \in {None, S(Date(1))} :
            params = [state |-> st, device_id |-> id, device_display_name |-> name,
                      comment |-> S(<<>>), duration |-> I(15),
                      start_time |-> start, end_date_time |-> None,
                      sdt_type |-> None]
    /\ \E sdts \in {<<>>, <<DeviceSdt(6, 60000)>>, <<DeviceSdt(6, 100000)>>},
          devices \in {<<>>, <<[id |-> I(5), name |-> S(hostname)]>>} :
            remote = [EmptyRemote EXCEPT !.sdts = sdts, !.devices = devices,
                                         !.next_id = 10]
    /\ host = IdleHost

Init ==
    /\ \/ InitDeviceGroup
       \/ InitCollectorGroup
       \/ InitCollector
       \/ InitCollectorSdt
       \/ InitDeviceSdt
    /\ results = <<>>
    /\ calls = <<>>
    /\ run = NewRun(Plan[1], remote, host, params)
    /\ cmp_in = [a |-> <<>>, b |-> <<>>, kind |-> "collector"]
    /\ cmp_out = [done |-> TRUE, equal |-> TRUE]

Next ==
    \/ selector
    \/ find_collector_group
    \/ find_device
    \/ find_obj
    \/ find_parent
    \/ add_obj
    \/ update_obj
    \/ delete_obj
    \/ uninstall_collector
    \/ download_installer
    \/ install_collector
    \/ NextRun

Spec == Init /\ [][Next]_vars
(***************************************************************************)
(* What a run did                                                          *)
(***************************************************************************)
CreateOps == {"add_device_group", "add_collector_group", "add_collector", "add_sdt"}
UpdateOps == {"update_device_group_by_id", "update_collector_group_by_id",
              "update_collector_by_id"}
DeleteOps == {"delete_device_group_by_id", "delete_collector_group_by_id",
              "delete_collector_by_id", "delete_sdt_by_id"}
LocalOps == {"install_collector", "run_installer", "run_uninstaller"}
MutatingOps == CreateOps \cup UpdateOps \cup DeleteOps \cup LocalOps

\* the positions of a call log at which one of some operations was called
Issued(log, ops) == {i \in 1..Len(log) : log[i].op \in ops}

\* the call succeeded
Succeeded(call) == ~call.exc /\ call.status = 200

\* the running invocation has ended
Ended == run.pc = "done"

\* the run ended by exit_json or fail_json with that value of changed
Reports(r, changed) == r.outcome \in {"success", "failed"} /\ r.changed = changed

\* the id of the exit payload, None when the payload carries none
PayloadId(payload) ==
    IF payload # None /\ "id" \in DOMAIN payload THEN payload.id ELSE None

CollectorKinds == {"sdk_collector", "collector"}
DeviceGroupKinds == {"sdk_device_group", "device_group"}

\* C4: in check mode no create, update, delete, installer download,
\* installer or uninstaller call is issued, in any module and from any
\* target, remote and local state
C4_DryRunSafety ==
    run.check_mode => Issued(calls, MutatingOps) = {}

\* C4 witness: a dry run of the sdk collector module has ended reporting
\* changed=true with an agent installed whose size is not the wanted one and
\* a remote collector found that differs from the wanted one
C4_Witness ==
    /\ Ended /\ run.check_mode /\ kind = "sdk_collector"
    /\ run.outcome = "success" /\ run.changed
    /\ run.finder = "found" /\ run.cmp = "unequal"
    /\ host.installed /\ run.params.collector_size = S(MEDIUM_SIZE)
    /\ calls # <<>>

\* C6: a state=absent run whose finder finds nothing ends successfully with
\* changed=false and issues no delete call
C6_AbsentNotFoundNoOp ==
    (Ended /\ ~run.faulted /\ run.params.state = "absent"
        /\ run.finder = "not_found")
    => /\ run.outcome = "success"
       /\ ~run.changed
       /\ Issued(calls, DeleteOps) = {}

\* C7: a state=present run that finds the resource and compares it equal
\* issues no create, update or delete call, reports changed=false, and
\* carries the id of the found resource in its exit payload
C7_PresentEqualNoOp ==
    (Ended /\ ~run.faulted /\ run.params.state = "present"
        /\ run.finder = "found" /\ run.cmp = "equal")
    => /\ Issued(calls, CreateOps \cup UpdateOps \cup DeleteOps) = {}
       /\ Reports(run, FALSE)
       /\ PayloadId(run.payload) = S(Str(run.found_obj.id))

\* the calls of a log that create a resource, in the order they were issued
IsCreate(call) == call.op \in CreateOps
Creates(log) == SelectSeq(log, IsCreate)

\* the segments s1, ..., sn of a device group path
Segments(full_path) == Split(Lstrip(full_path, "/"), "/")

\* the device groups of an account that sit at a path
GroupsAt(groups, path) == {i \in 1..Len(groups) : groups[i].full_path.v = path}

\* the number of segments of the longest prefix of a path that exists
ExistingPrefix(groups, segs) ==
    LET ks == {k \in 1..Len(segs) :
                  GroupsAt(groups, Join(SubSeq(segs, 1, k), "/")) # {}}
    IN IF ks = {} THEN 0 ELSE CHOOSE k \in ks : \A j \in ks : j <= k

\* the run is one of a device group module that wants its group present, has
\* not found it and has materialized its path without a failing call
Materialized ==
    /\ Ended /\ ~run.faulted /\ ~run.check_mode
    /\ kind \in DeviceGroupKinds
    /\ run.params.state = "present" /\ run.finder = "not_found"

\* C3: when a device group path s1/.../sn whose longest existing prefix has
\* k segments is materialized, exactly n-k add_device_group calls are
\* issued, the j-th of them for segment s(k+j), with parent_id 1 when its
\* parent path is empty and otherwise the id of the remote group at its
\* parent path
C3_PathMaterialization ==
    Materialized =>
        LET segs == Segments(run.params.full_path.v)
            k == ExistingPrefix(run.remote0.device_groups, segs)
            creates == Creates(calls)
        IN /\ Len(creates) = Len(segs) - k
           /\ \A j \in 1..Len(creates) :
                LET above == GroupsAt(remote.device_groups,
                                      Join(SubSeq(segs, 1, k + j - 1), "/"))
                IN /\ creates[j].op = "add_device_group"
                   /\ creates[j].obj.name = S(segs[k + j])
                   /\ IF k + j = 1
                      THEN creates[j].obj.parent_id = I(1)
                      ELSE /\ above # {}
                           /\ creates[j].obj.parent_id
                                = remote.device_groups[Min(above)].id

\* C3 witness: the path a/b/a or a/b/b has been materialized with three
\* creates in an account that held no group
C3_Witness ==
    /\ Materialized
    /\ Len(Segments(run.params.full_path.v)) = 3
    /\ run.remote0.device_groups = <<>>
    /\ Len(Creates(calls)) = 3
    /\ run.outcome = "success"

\* C3 witness of the second case: one segment was missing below an existing
\* parent
C3_WitnessOneMissing ==
    /\ Materialized
    /\ Len(Segments(run.params.full_path.v)) = 2
    /\ ExistingPrefix(run.remote0.device_groups,
                      Segments(run.params.full_path.v)) = 1
    /\ Len(Creates(calls)) = 1

\* a non-dry state=present run whose finder has found nothing
PresentNotFound ==
    /\ ~run.check_mode /\ run.params.state = "present"
    /\ run.finder = "not_found"

\* a collector module was given the id of the collector to manage
CollectorById == kind \in CollectorKinds /\ Truthy(run.params.id)

\* the log holds a create call and its last create call succeeded
Created(log) ==
    LET creates == Creates(log)
    IN creates # <<>> /\ Succeeded(creates[Len(creates)])

\* C8 as stated: every non-dry state=present run whose finder finds nothing
\* issues the create call, reports changed=true when it succeeds, and
\* issues no update or delete call
C8_PresentNotFoundCreates ==
    PresentNotFound =>
        /\ Issued(calls, UpdateOps \cup DeleteOps) = {}
        /\ (Ended /\ ~run.faulted) =>
                /\ Creates(calls) # <<>>
                /\ Created(calls) => run.outcome = "success" /\ run.changed

\* C8 amended: the same, except in the collector modules when an id is
\* given, which refuse to create a collector with a specific id
C8_PresentNotFoundCreatesUnlessById ==
    (PresentNotFound /\ ~CollectorById) =>
        /\ Issued(calls, UpdateOps \cup DeleteOps) = {}
        /\ (Ended /\ ~run.faulted) =>
                /\ Creates(calls) # <<>>
                /\ Created(calls) => run.outcome = "success" /\ run.changed

\* C8 witness: a collector has been created and its agent installed, and a
\* device group below a missing parent has been created
C8_Witness ==
    /\ PresentNotFound /\ ~CollectorById /\ Ended /\ ~run.faulted
    /\ Created(calls) /\ run.changed
    /\ \/ kind \in CollectorKinds /\ Issued(calls, {"run_installer"}) # {}
       \/ kind \in DeviceGroupKinds /\ Len(Creates(calls)) = 2

\* C9: a non-dry state=present run that finds the resource and compares it
\* unequal issues exactly one update call, addressed by the id of the found
\* object and sending that id (and for device groups the found name and
\* parent_id), and reports changed=true
C9_PresentUnequalUpdates ==
    (Ended /\ ~run.faulted /\ ~run.check_mode /\ run.params.state = "present"
        /\ run.finder = "found" /\ run.cmp = "unequal")
    => LET updates == Issued(calls, UpdateOps)
       IN /\ Cardinality(updates) = 1
          /\ \A i \in updates :
                /\ calls[i].id = S(Str(run.found_obj.id))
                /\ calls[i].obj.id = run.found_obj.id
                /\ kind \in DeviceGroupKinds =>
                      /\ calls[i].obj.name = run.found_obj.name
                      /\ calls[i].obj.parent_id = run.found_obj.parent_id
          /\ Reports(run, TRUE)

\* C10: a non-dry state=absent run whose finder finds the resource issues
\* exactly one delete call, addressed by the id of the found resource,
\* reports changed=true when that call succeeds, and issues no create or
\* update call
C10_AbsentFoundDeletes ==
    (Ended /\ ~run.faulted /\ ~run.check_mode /\ run.params.state = "absent"
        /\ run.finder = "found")
    => LET deletes == Issued(calls, DeleteOps)
       IN /\ Cardinality(deletes) = 1
          /\ \A i \in deletes :
                /\ calls[i].id = S(Str(run.found_obj.id))
                /\ Succeeded(calls[i]) => Reports(run, TRUE)
          /\ Issued(calls, CreateOps \cup UpdateOps) = {}

\* the second non-dry run of a session has ended; results[2] is the first,
\* which succeeded, and nothing but these runs has touched the account and
\* the host since it began
SecondRunEnded ==
    /\ Len(results) = 2 /\ Ended /\ ~run.faulted
    /\ ~results[2].check_mode /\ ~run.check_mode
    /\ results[2].outcome = "success"

\* C2: of two successive non-dry state=present runs with the same
\* parameters, the second reports changed=false and issues no create,
\* update, delete, install or uninstall call, and the first reports
\* changed=true unless it found nothing to do either
C2_Idempotence ==
    (SecondRunEnded /\ params.state = "present") =>
        /\ run.outcome = "success" /\ ~run.changed
        /\ Issued(calls, MutatingOps) = {}
        /\ results[2].changed \/ Issued(results[2].calls, MutatingOps) = {}

\* the run that follows a dry run from the state the dry run began in has
\* ended without a failing call or command
RealRunEnded ==
    /\ Len(results) = 1 /\ Ended /\ ~run.faulted
    /\ results[1].check_mode /\ ~run.check_mode
    /\ results[1].remote0 = run.remote0
    /\ results[1].host0 = run.host0

\* C5: a dry run and the non-dry run started from the same state end
\* alike: with the same outcome and the same reported value of changed
C5_DryRunEquivalence ==
    RealRunEnded =>
        /\ results[1].outcome = run.outcome
        /\ results[1].changed = run.changed

\* the call the running invocation made last
LastCall == calls[Len(calls)]

\* add_obj has just had an answer that is no exception
CreateAnswered ==
    calls # <<>> /\ LastCall.op \in CreateOps /\ ~LastCall.exc

\* C11: when a create call is answered with status 600, add_obj returns the
\* object that was sent and the run goes on to a successful exit, with that
\* object in its payload; any other status but 200 makes the run fail
C11_AlreadyExistsBenign ==
    CreateAnswered =>
        /\ LastCall.status = 600 =>
                /\ run.outcome \in {"running", "success"}
                /\ (Ended /\ kind \in SdkKinds) =>
                        PayloadId(run.payload) = S(Str(LastCall.obj.id))
        /\ LastCall.status \notin {200, 600} =>
                Ended /\ run.outcome = "failed"

\* the answers of the account that the modules take for "does not exist" or
\* "exists already" rather than for an error
Benign(call) ==
    \/ call.op \in CreateOps /\ call.status = 600
    \/ call.op = "get_collector_by_id" /\ call.status = 1069

\* the call raised or was answered with an error status, or the command is
\* one that install_collector / uninstall_collector judges failed
Fatal(call) ==
    CASE call.op = "run_installer" ->
            IF kind = "sdk_collector"
            THEN call.status # 0 \/ call.err # ""
            ELSE call.status < 0 \/ call.err # ""
      [] call.op = "run_uninstaller" -> call.status < 0 \/ call.err # ""
      [] OTHER -> call.exc \/ (call.status # 200 /\ ~Benign(call))

\* C12: a call that raises or is answered with an error status, and a
\* command judged failed, is the last thing the run does: no call, command
\* or removal of the installer follows it, and the run ends failed
C12_FatalAbort ==
    \A i \in 1..Len(calls) :
        Fatal(calls[i]) =>
            /\ i = Len(calls)
            /\ Ended /\ run.outcome = "failed"
            /\ calls[i].op = "run_installer" => host.installer

\* the number of calls of a log that are of some operations
Count(log, ops) == Cardinality(Issued(log, ops))

\* C13 as stated: an invocation issues at most one create, update or delete
\* call in total
C13_AtMostOneMutation ==
    Count(calls, CreateOps \cup UpdateOps \cup DeleteOps) <= 1

\* C13, amended: an invocation issues at most one update or delete call and
\* then no create call; it issues at most one create call, except in the
\* device group modules, which issue at most one for every segment of the
\* desired path
C13_AtMostOneMutationOrPath ==
    /\ Count(calls, UpdateOps \cup DeleteOps) <= 1
    /\ Count(calls, UpdateOps \cup DeleteOps) = 0 \/ Count(calls, CreateOps) = 0
    /\ Count(calls, CreateOps) <=
            IF kind \in DeviceGroupKinds
            THEN Len(Segments(Str(run.params.full_path)))
            ELSE 1

\* a device group run has ended successfully after more than one create call
C13_Witness ==
    /\ kind \in DeviceGroupKinds /\ Ended /\ run.outcome = "success"
    /\ Count(calls, CreateOps) > 1
    /\ \A i \in Issued(calls, CreateOps) : Succeeded(calls[i])

\* the number of segments of the path of a device group
Depth(dg) == Len(Segments(dg.full_path.v))

\* create_device_group is active: the stack holds its pending calls, the
\* outermost first
Creating == kind \in DeviceGroupKinds /\ run.stack # <<>> /\ ~Ended

\* the pending calls of create_device_group, each on the parent path of its
\* caller's, wait for a parent that does not exist, and the innermost is at
\* its add_obj only with the parent path empty or the parent found
RecursionShrinks ==
    LET stack == run.stack
        groups == remote.device_groups
    IN /\ Len(stack) <= Len(Segments(Str(run.params.full_path)))
       /\ \A i \in 1..(Len(stack) - 1) :
            /\ Depth(stack[i + 1]) = Depth(stack[i]) - 1
            /\ stack[i + 1].full_path.v = parent_path_of(stack[i].full_path.v)
            /\ ~run.faulted =>
                    GroupsAt(groups, Lstrip(stack[i + 1].full_path.v, "/")) = {}
       /\ (run.pc = "add_obj" /\ ~run.faulted) =>
            LET parent_path == parent_path_of(Top(stack).full_path.v)
            IN IF parent_path = <<>> THEN Top(stack).parent_id = I(1)
               ELSE \E i \in GroupsAt(groups, Lstrip(parent_path, "/")) :
                        groups[i].id = Top(stack).parent_id

\* C14: create_device_group terminates for every desired path: a recursive
\* call is on the path of its caller less the last segment, the depth of the
\* recursion never exceeds the number of segments of the desired path, the
\* recursion stops at an empty parent path or a parent that was found
C14_CreateTerminates == Creating => RecursionShrinks

\* create_device_group is at its deepest for a path of more than one segment
\* none of whose groups exists: one pending call for every segment
C14_Witness ==
    /\ Creating /\ Len(run.stack) > 1
    /\ Len(run.stack) = Len(Segments(Str(run.params.full_path)))
    /\ run.pc = "add_obj"

\* find_collector_by_id has just had its answer
LookedUpById == calls # <<>> /\ LastCall.op = "get_collector_by_id"

\* C15: find_collector_by_id returns the collector on status 200, returns
\* "not found" without failing on status 1069, and on any other status and
\* on an exception of the call fails the run, which makes no further call
C15_FindCollectorById ==
    /\ \A i \in Issued(calls, {"get_collector_by_id"}) :
            (calls[i].exc \/ calls[i].status \notin {200, 1069}) =>
                /\ i = Len(calls)
                /\ Ended /\ Reports(run, FALSE) /\ run.outcome = "failed"
    /\ (LookedUpById /\ Succeeded(LastCall)) =>
            /\ run.finder = "found"
            /\ run.found_obj.id = I(IntOf(LastCall.id))
    /\ (LookedUpById /\ ~LastCall.exc /\ LastCall.status = 1069) =>
            /\ run.finder = "not_found" /\ run.found_obj = None
            /\ run.params.state = "absent" => run.outcome # "failed"

\* find_collector_by_id has had each of its three kinds of answer
C15_Witness ==
    /\ Len(results) = 2 /\ LookedUpById
    /\ Succeeded(results[1].calls[Len(results[1].calls)])
    /\ results[2].outcome = "success"
    /\ LastCall.status = 1069

\* a collector module is to make the collector of a given id present
PresentById == CollectorById /\ run.params.state = "present"

\* the account held no collector of the given id when the run started
NoSuchCollector == run.params.id \notin IdsOf(run.remote0.collectors)

\* C16: a collector module given an id with state=present looks the
\* collector up by that id and never by description, and when the account
\* holds no collector of that id it never calls add_collector and does not
\* end successfully, in check mode or not
C16_NoCreateWithId ==
    PresentById =>
        /\ Issued(calls, {"get_collector_list"}) = {}
        /\ NoSuchCollector =>
                /\ Issued(calls, {"add_collector"}) = {}
                /\ Ended => run.outcome # "success"

\* the running invocation is a non-dry state=present run of a collector module
CollectorPresentRun ==
    kind \in CollectorKinds /\ ~run.check_mode /\ run.params.state = "present"

\* the uninstaller has removed the agent in the running invocation
Uninstalled ==
    \E i \in Issued(calls, {"run_uninstaller"}) : calls[i].status = 0

\* the agent was absent when ensure_present came to "if not
\* collector_installed()": absent from the start, or removed by the run
AbsentWhenChecked == ~run.host0.installed \/ Uninstalled

\* the log ends with the download of the installer and then its execution
InstallStepRan ==
    /\ Len(calls) >= 2
    /\ calls[Len(calls) - 1].op = "install_collector"
    /\ Succeeded(calls[Len(calls) - 1])
    /\ LastCall.op = "run_installer"
    /\ Count(calls, {"install_collector", "run_installer"}) = 2

\* C17: a non-dry state=present run of a collector module that ends
\* successfully with the agent absent when checked has downloaded the
\* installer, then executed it, then deleted it; and the installer is deleted
\* after its execution whether that succeeded or failed
C17_InstallStep ==
    CollectorPresentRun =>
        /\ (Ended /\ run.outcome = "success" /\ AbsentWhenChecked) =>
                InstallStepRan /\ ~host.installer
        /\ (calls # <<>> /\ LastCall.op = "run_installer") => ~host.installer

\* the install step has ended in success, and in failure
C17_Witness ==
    /\ CollectorPresentRun /\ Ended /\ InstallStepRan
    /\ run.outcome = "success" /\ LastCall.status = 0 /\ host.installed
    /\ run.host0.installed /\ Uninstalled

C17_WitnessFailed ==
    /\ CollectorPresentRun /\ Ended /\ InstallStepRan
    /\ run.outcome = "failed" /\ LastCall.status # 0

\* the requested size is not the size of the agent installed when the run
\* started, or a version is requested
DestructiveDifference ==
    \/ ~compare_installed_collector_size(run.params.collector_size,
                                         run.host0.heap)
    \/ Truthy(run.params.collector_version)

\* every uninstaller of the log comes before every installer
UninstallFirst(log) ==
    \A i \in Issued(log, {"run_uninstaller"}) :
        \A j \in Issued(log, {"install_collector", "run_installer"}) : i < j

\* a non-dry state=present run of a collector module on a host with the
\* agent has ended, none of its calls having failed and the module not
\* having refused its parameters
ReinstallDecided ==
    /\ CollectorPresentRun /\ run.host0.installed
    /\ Ended /\ ~run.faulted /\ run.outcome # "failed"

\* C18: a non-dry state=present run of a collector module on a host with
\* the agent executes the uninstaller exactly when the requested size or
\* version differs from the installed one, before any installer, and runs
\* the installer after an uninstall that removed the agent; without such a
\* difference it runs neither
C18_DestructiveReinstall ==
    ReinstallDecided =>
        /\ DestructiveDifference <=> Count(calls, {"run_uninstaller"}) = 1
        /\ UninstallFirst(calls)
        /\ Uninstalled => InstallStepRan
        /\ ~DestructiveDifference =>
                Count(calls, {"run_uninstaller", "run_installer"}) = 0

\* a non-dry state=absent run of a collector module on a host with the agent
\* has ended, none of its calls having failed
AbsentRunEnded ==
    /\ kind \in CollectorKinds /\ ~run.check_mode
    /\ run.params.state = "absent" /\ run.host0.installed
    /\ Ended /\ ~run.faulted

\* every delete call of the log comes before every uninstaller
DeleteFirst(log) ==
    \A i \in Issued(log, DeleteOps) :
        \A j \in Issued(log, {"run_uninstaller"}) : i < j

\* C19: a non-dry state=absent run of a collector module on a host with the
\* agent executes the uninstaller exactly once and ends successfully,
\* whether the collector was found or not; when it was found, the delete
\* call comes before the uninstaller
C19_AbsentUninstalls ==
    AbsentRunEnded =>
        /\ Count(calls, {"run_uninstaller"}) = 1
        /\ run.outcome = "success"
        /\ run.finder = "found" =>
                Count(calls, DeleteOps) = 1 /\ DeleteFirst(calls)

\* the command exited with a code other than 0 or wrote to stderr
CommandFailed(call) == call.status # 0 \/ call.err # ""

\* C20: in the collector modules an installer or uninstaller that returns an
\* exit code other than 0, positive or negative, or writes to stderr, ends
\* the run in the failed outcome
C20_CommandFailureFails ==
    \A i \in Issued(calls, {"run_installer", "run_uninstaller"}) :
        CommandFailed(calls[i]) =>
            /\ i = Len(calls)
            /\ Ended /\ run.outcome = "failed"

\* the device SDT module was given both, or neither, of device_id and
\* device_display_name
BothDevices ==
    /\ kind = "device_sdt"
    /\ Truthy(params.device_id) /\ Truthy(params.device_display_name)

NeitherDevice ==
    /\ kind = "device_sdt"
    /\ ~Truthy(params.device_id) /\ ~Truthy(params.device_display_name)

\* the running invocation has ended with fail_json before any call
RefusedUncalled == calls = <<>> /\ (Ended => Reports(run, FALSE) /\ run.outcome = "failed")

\* the account held the device of this host when the run started
HostKnown == \E i \in 1..Len(run.remote0.devices) :
                run.remote0.devices[i].name = S(hostname)

C21_WitnessNeither ==
    /\ NeitherDevice /\ Ended /\ ~HostKnown /\ ~run.faulted
    /\ run.outcome = "failed"

C21_WitnessNeitherKnown ==
    /\ NeitherDevice /\ Ended /\ HostKnown /\ run.outcome = "success"
    /\ Len(calls) > 1

\* the device SDT module was given device_display_name and no device_id
DisplayNameAlone ==
    /\ kind = "device_sdt"
    /\ ~Truthy(params.device_id) /\ Truthy(params.device_display_name)

\* C22: a run of the device SDT module given device_display_name alone is
\* not refused by parse_device: it goes on to fetch the SDT list, and when
\* none of its calls fails it ends successfully
C22_DisplayNameAloneValid ==
    (DisplayNameAlone /\ Ended) =>
        /\ Issued(calls, {"get_sdt_list"}) # {}
        /\ ~run.faulted => run.outcome = "success"

\* a collector module is to remove a collector it was given neither the id
\* nor the description of
AbsentUnidentified ==
    /\ kind \in CollectorKinds /\ run.params.state = "absent"
    /\ ~Truthy(run.params.id) /\ ~Truthy(run.params.description)

\* C23: a state=absent run of a collector module given neither id nor
\* description is refused: it issues no delete call and no uninstaller, and
\* it ends in the failed outcome
C23_AbsentNeedsIdentity ==
    AbsentUnidentified =>
        /\ Issued(calls, DeleteOps \cup {"run_uninstaller"}) = {}
        /\ Ended => run.outcome = "failed"

\* C24: the payload of every successful exit has the keys changed, a
\* boolean, success, which is true, and id among the fields of the resource
C24_ExitPayload ==
    (Ended /\ run.outcome = "success") =>
        /\ {"changed", "success", "id"} \subseteq DOMAIN run.payload
        /\ run.payload.changed \in {B(TRUE), B(FALSE)}
        /\ run.payload.success = B(TRUE)

\* C25: in the payload of every successful exit of the collector SDT module
\* start_date_time is the epoch at which the SDT starts, the start_time the
\* run has parsed, and end_date_time is that epoch plus the duration in
\* milliseconds
C25_SdtPayloadTimes ==
    (kind = "sdk_collector_sdt" /\ Ended /\ run.outcome = "success") =>
        /\ IntOf(run.payload.start_date_time) = IntOf(run.params.start_time)
        /\ IntOf(run.payload.end_date_time) =
                IntOf(run.payload.start_date_time)
                    + IntOf(run.params.duration) * 60 * 1000

(***************************************************************************)
(* find_obj of the device group and collector group modules on its own:    *)
(* the key asked for, with and without leading separators, against         *)
(* collections that hold a key never, once or more than once               *)
(***************************************************************************)
MaxItems == 3

FindKinds == {"sdk_device_group", "device_group", "collector_group"}

\* the keys asked for
FindGiven ==
    {<<"a">>, <<"/", "a">>, <<"/", "/", "a">>, <<"b">>, <<"/", "b">>,
     <<"a", "/", "b">>, <<"/", "a", "/", "b">>}

\* the keys of the items of the account
FindStored == {<<"a">>, <<"b">>, <<"a", "/", "b">>, <<"/", "a">>}

\* the item at a position of the fetched collection; its id is its position
FindItem(i, key) ==
    [id |-> I(i), name |-> S(key), full_path |-> S(key), description |-> S(<<"x">>)]

FindCollections ==
    UNION {{[i \in 1..n |-> FindItem(i, keys[i])] : keys \in [1..n -> FindStored]} :
           n \in 0..MaxItems}

FindParams(m, st, given) ==
    IF m = "collector_group"
    THEN [state |-> st, name |-> S(given), description |-> S(<<"x">>)]
    ELSE [state |-> st, full_path |-> S(given), description |-> S(<<"x">>),
          disable_alerting |-> B(FALSE), applies_to |-> None, properties |-> <<>>]

FindInit ==
    /\ kind \in FindKinds
    /\ \E st \in States, given \in FindGiven : params = FindParams(kind, st, given)
    /\ cmp_in \in [items : FindCollections]
    /\ cmp_out = [done |-> FALSE, found |-> None]
    /\ results = <<>> /\ run = None /\ calls = <<>> /\ remote = None /\ host = None

\* the scan of find_obj as ensure_present and ensure_absent call it
FindApply ==
    /\ ~cmp_out.done
    /\ LET r == [obj |-> get_obj(kind, params)]
       IN cmp_out' = [done |-> TRUE,
                      found |-> find_scan(kind, params, r, cmp_in.items)]
    /\ UNCHANGED <<cmp_in, run_vars>>

FindNext == FindApply

SpecFind == FindInit /\ [][FindNext]_vars

\* the key the run was given
GivenKey == IF kind = "collector_group" THEN params.name.v ELSE params.full_path.v

\* the key of an item
KeyOf(item) == IF kind = "collector_group" THEN item.name.v ELSE item.full_path.v

\* key is given without its leading separators
StrippedOf(given, key) ==
    \E n \in 0..Len(given) :
        /\ \A i \in 1..n : given[i] = "/"
        /\ n < Len(given) => given[n + 1] # "/"
        /\ key = SubSeq(given, n + 1, Len(given))

\* the positions of the collection whose key is the given key stripped
Matches(items, given) ==
    {i \in 1..Len(items) : StrippedOf(given, KeyOf(items[i]))}

\* C26: find_obj returns the first item of the fetched collection whose key
\* equals the given key without its leading separators, and "not found"
\* when there is none: '/X' finds what 'X' finds, and of two items with
\* the key the earlier is returned
C26_FirstExactMatch ==
    cmp_out.done =>
        LET items == cmp_in.items
            matches == Matches(items, GivenKey)
        IN IF matches = {} THEN cmp_out.found = None
           ELSE \E i \in matches :
                    /\ cmp_out.found = items[i]
                    /\ \A j \in matches : i <= j

\* a key given with a leading separator has found the earlier of two items
\* with the key, which is not the first item of the collection
C26_Witness ==
    /\ cmp_out.done /\ Head(GivenKey) = "/"
    /\ Cardinality(Matches(cmp_in.items, GivenKey)) = 2
    /\ cmp_out.found = cmp_in.items[2]

\* C27: a non-dry run that ends successfully and reports changed=false has
\* issued no create, update or delete call, no download of the installer,
\* no installer and no uninstaller
C27_UnchangedTouchedNothing ==
    (~run.check_mode /\ Ended /\ run.outcome = "success" /\ ~run.changed) =>
        Issued(calls, MutatingOps) = {}

\* C28: a run that ends in the failed outcome with changed=false has
\* completed no successful create, update or delete call, and the account
\* is as it was when the run started
C28_FailedUnchangedLeftRemote ==
    (Ended /\ run.outcome = "failed" /\ ~run.changed) =>
        /\ \A i \in Issued(calls, CreateOps \cup UpdateOps \cup DeleteOps) :
                ~Succeeded(calls[i])
        /\ ~run.faulted => remote = run.remote0

\* the parent_id a device group was sent with is 1 for a group of the top
\* level and else the id of a group of the account at the parent path
ParentResolved(dg, groups) ==
    LET parent_path == Lstrip(parent_path_of(dg.full_path.v), "/")
    IN IF parent_path = <<>> THEN dg.parent_id = I(1)
       ELSE \E i \in GroupsAt(groups, parent_path) : groups[i].id = dg.parent_id

\* C29: every add_device_group call sends a group whose parent_id is
\* defined and is 1 or the id of a group that exists at the parent path,
\* also after the create of an ancestor was answered with status 600
C29_ParentIdDefined ==
    \A i \in Issued(calls, {"add_device_group"}) :
        /\ calls[i].obj.parent_id # None
        /\ ParentResolved(calls[i].obj, remote.device_groups)

(***************************************************************************)
(* Two invocations of a device group module at once: the same parameters,  *)
(* state=present, not check mode, for a path the account does not hold.    *)
(* run is the pair of the two invocations, calls the log of both; every    *)
(* call is answered by the account as it stands when the call is made.     *)
(***************************************************************************)
Racers == {1, 2}

RaceInit ==
    /\ kind \in DeviceGroupKinds
    /\ \E segs \in SegPaths, lead \in {<<>>, <<"/">>} :
        /\ params = [state |-> "present", full_path |-> S(lead \o PathString(segs)),
                     description |-> S(<<"x">>), disable_alerting |-> B(FALSE),
                     applies_to |-> None, properties |-> <<>>]
        /\ \E k \in 0..(Len(segs) - 1) :
                remote = [EmptyRemote EXCEPT !.device_groups = Chain(SubSeq(segs, 1, k)),
                                             !.next_id = k + 2]
    /\ host = IdleHost
    /\ run = [i \in Racers |-> NewRun(FALSE, remote, host, params)]
    /\ calls = <<>> /\ results = <<>>
    /\ cmp_in = [a |-> <<>>, b |-> <<>>, kind |-> "collector"]
    /\ cmp_out = [done |-> TRUE, equal |-> TRUE]

race_selector ==
    /\ \E i \in Racers :
        /\ run[i].pc = "selector"
        /\ run' = [run EXCEPT ![i] =
                      selector_step(kind, run[i].params, run[i], host, host.now)]
    /\ UNCHANGED <<kind, params, results, calls, remote, host, cmp_vars>>

race_find_obj ==
    /\ \E i \in Racers :
        /\ run[i].pc = "find_obj"
        /\ LET c == find_call(kind, run[i].params, remote)
           IN /\ calls' = Append(calls, Call(c.op, c.id, None, c.answer))
              /\ run' = [run EXCEPT ![i] =
                            find_obj_step(kind, run[i].params, run[i], host, c.answer)]
    /\ UNCHANGED <<kind, params, results, remote, host, cmp_vars>>

race_find_parent ==
    /\ \E i \in Racers :
        /\ run[i].pc = "find_parent"
        /\ LET resp == get_device_group_list(remote)
           IN /\ calls' = Append(calls, Call("get_device_group_list", None, None, resp))
              /\ run' = [run EXCEPT ![i] = find_parent_step(kind, run[i], resp)]
    /\ UNCHANGED <<kind, params, results, remote, host, cmp_vars>>

\* what the account does with a group that names no parent is not known:
\* it refuses the group, or it puts the group below the root
race_add_obj ==
    /\ \E i \in Racers :
        /\ run[i].pc = "add_obj"
        /\ LET sent == add_sent(kind, run[i])
               rooted == [sent EXCEPT !.parent_id = I(1)]
               answers == IF sent.parent_id = None
                          THEN {add_device_group(remote, sent),
                                add_device_group(remote, rooted)}
                          ELSE {add_device_group(remote, sent)}
           IN \E resp \in answers :
                /\ calls' = Append(calls, Call("add_device_group", None, sent, resp))
                /\ remote' = resp.remote
                /\ run' = [run EXCEPT ![i] =
                              add_obj_step(kind, run[i].params, run[i], host, sent, resp)]
    /\ UNCHANGED <<kind, params, results, host, cmp_vars>>

RaceNext ==
    \/ race_selector
    \/ race_find_obj
    \/ race_find_parent
    \/ race_add_obj

SpecRace == RaceInit /\ [][RaceNext]_vars

\* both invocations have ended
RaceEnded == \A i \in Racers : run[i].pc = "done"

\* the account holds exactly one group at every prefix of the path, each
\* with the id of the group at its parent path as parent_id, 1 at the top
OneGroupPerPrefix(groups, segs) ==
    \A k \in 1..Len(segs) :
        LET at == GroupsAt(groups, Join(SubSeq(segs, 1, k), "/"))
        IN /\ Cardinality(at) = 1
           /\ \A g \in at :
                IF k = 1 THEN groups[g].parent_id = I(1)
                ELSE \E h \in GroupsAt(groups, Join(SubSeq(segs, 1, k - 1), "/")) :
                        groups[g].parent_id = groups[h].id

\* C30: two non-dry state=present invocations for the same missing device
\* group path, run at once against an account that answers a second create
\* of a path with status 600, both end successfully under every
\* interleaving of their calls, and the account then holds exactly one
\* group for every prefix of the path, each below the group of its parent
\* path
C30_RaceConverges ==
    RaceEnded =>
        /\ \A i \in Racers : run[i].outcome = "success"
        /\ OneGroupPerPrefix(remote.device_groups,
                             Segments(Str(params.full_path)))
====
